---- MODULE Spec2Model ----
(***************************************************************************)
(* The live-sync pipeline of fplgenieupdate: live detection, data fetch,   *)
(* validation and persistence (main and the functions it calls), together  *)
(* with the storage schema the writes run against.                         *)
(***************************************************************************)
EXTENDS Integers, Sequences, FiniteSets, TLC

\* ------------------------------------------------------------------------
\* Program constants (validateData)
\* ------------------------------------------------------------------------
expectedTeamsCount == 20
minPlayersCount == 400
minEventsCount == 38

\* ------------------------------------------------------------------------
\* Bounds of the model
\* ------------------------------------------------------------------------
\* longest live player-stat list the source returns
MaxLive == 3
\* longest fixture list returned for the current gameweek during detection
MaxDetectFixtures == 2
\* longest player list of a reference snapshot that is applied twice
MaxMergePlayers == 2

\* ------------------------------------------------------------------------
\* JavaScript values
\* ------------------------------------------------------------------------
\* null / undefined of an integer field, and SQL NULL of an INT column
Null == -1

\* x || null for a number x: every falsy number (0, null, undefined) gives null
OrNull(x) == IF x = Null \/ x = 0 THEN Null ELSE x

\* a parameter that passes an absent number on as it is
OrZero_PassThrough(x) == x

\* x || 0 for a number x
OrZero(x) == IF x = Null THEN 0 ELSE x

\* A JSON value where the code expects an array: absent (undefined / null),
\* a truthy value that is no array, or an array.
Missing == [kind |-> "missing", items |-> <<>>]
NonArray == [kind |-> "object", items |-> <<>>]
Arr(s) == [kind |-> "array", items |-> s]

\* !x for such a value
Falsy(x) == x.kind = "missing"
\* Array.isArray(x)
IsArray(x) == x.kind = "array"

\* Booleans of the source are "true", "false" or "null" (null / undefined)
JsBool == {"true", "false", "null"}
\* b || false, as stored in a BIT column
OrFalse(b) == b = "true"

\* parseFloat(s) || fallback for the decimal strings of the source:
\* "1.5" parses to a non-zero number, "0.0" parses to 0 (falsy), "" and "abc"
\* parse to NaN (falsy)
ParseFloatOr(s, fallback) == IF s = "1.5" THEN "1.5" ELSE fallback

\* ------------------------------------------------------------------------
\* Records of the source API
\* ------------------------------------------------------------------------
Event(i, cur) == [id |-> i, is_current |-> cur]

Fixture(i, ev, a, h, sa, st, fin) ==
    [id |-> i, event |-> ev, team_a |-> a, team_h |-> h,
     team_a_score |-> sa, started |-> st, finished |-> fin]

Team(i, nm, st) == [id |-> i, name |-> nm, strength |-> st]

ElementType(i, nm, sq) == [id |-> i, singular_name |-> nm, squad_select |-> sq]

Player(i, tm, et) ==
    [id |-> i, web_name |-> "new", team |-> tm, element_type |-> et,
     code |-> 7, now_cost |-> 50, total_points |-> IF i % 2 = 0 THEN Null ELSE 9,
     form |-> IF i % 2 = 0 THEN "abc" ELSE "1.5", status |-> "a"]

\* an entry of the live response; stats absent models an entry without stats
LiveElement(i, hasStats, pts, mins, infl) ==
    [id |-> i, hasStats |-> hasStats,
     stats |-> [total_points |-> pts, minutes |-> mins, influence |-> infl]]

\* ------------------------------------------------------------------------
\* What the source may answer
\* ------------------------------------------------------------------------
\* events of a bootstrap-static response
EventsChoices ==
    { Missing, NonArray, Arr(<<>>),
      Arr(<<Event(1, "true")>>),
      Arr(<<Event(1, "false"), Event(2, "true")>>),
      Arr(<<Event(1, "false"), Event(2, "null")>>),
      Arr(<<Event(1, "true"), Event(2, "true")>>),
      Arr(<<Event(0, "true")>>),
      Arr(<<Event(Null, "true")>>) }

\* fixtures/?event=N during detection: every list of at most MaxDetectFixtures
\* fixtures over the started / finished values
DetectFixtureRecs ==
    { Fixture(1, 1, 1, 2, Null, st, fin) : st \in JsBool, fin \in JsBool }

RECURSIVE SeqsUpTo(_, _)
SeqsUpTo(S, n) ==
    IF n = 0 THEN {<<>>}
    ELSE LET shorter == SeqsUpTo(S, n - 1)
         IN shorter \cup { Append(s, x) : s \in { t \in shorter : Len(t) = n - 1 }, x \in S }

DetectFixturesChoices ==
    {Missing, NonArray} \cup { Arr(s) : s \in SeqsUpTo(DetectFixtureRecs, MaxDetectFixtures) }

\* a bootstrap-static response: transport / status error, or a body
NoData ==
    [present |-> FALSE, teams |-> Missing, elements |-> Missing,
     events |-> Missing, element_types |-> Missing]
BootstrapData(tm, el, ev, ty) ==
    [present |-> TRUE, teams |-> tm, elements |-> el, events |-> ev, element_types |-> ty]
Response(ok, data) == [ok |-> ok, data |-> data]

\* the responses as checkIfGameIsLive and getCurrentGameweekData read them:
\* only data.events is looked at
EventsResponses ==
    { Response(FALSE, NoData), Response(TRUE, NoData) } \cup
    { Response(TRUE, BootstrapData(Missing, Missing, ev, Missing)) : ev \in EventsChoices }

\* the player list of a bootstrap response with n players: player i has id i;
\* the last player plays for team 2, the others for team 1
Players(n) == [i \in 1..n |-> Player(i, IF i = n THEN 2 ELSE 1, 1)]

TeamsChoices ==
    { Missing, NonArray, Arr(<<>>),
      Arr(<<Team(1, "Arsenal", 0)>>),
      Arr(<<Team(1, "Arsenal", 3), Team(2, "Chelsea", Null)>>) }
ElementsChoices ==
    { Missing, Arr(<<>>), Arr(Players(minPlayersCount - 1)), Arr(Players(minPlayersCount)) }
BootstrapEventsChoices ==
    { Missing, Arr(<<>>), Arr(<<Event(1, "false"), Event(2, "true")>>) }
ElementTypesChoices ==
    { Missing, Arr(<<>>), Arr(<<ElementType(1, "Goalkeeper", 2)>>) }

BootstrapResponses ==
    { Response(FALSE, NoData), Response(TRUE, NoData) } \cup
    { Response(TRUE, BootstrapData(tm, el, ev, ty)) :
        tm \in TeamsChoices, el \in ElementsChoices,
        ev \in BootstrapEventsChoices, ty \in ElementTypesChoices }

\* event/N/live: the i-th entry of the list. Entry 1 names a player that is in
\* no bootstrap list, entry 2 has no stats object, entry 4 repeats entry 3.
LiveAt(i) ==
    CASE i = 1 -> LiveElement(minPlayersCount + 2, TRUE, 6, 90, "1.5")
      [] i = 2 -> LiveElement(2, FALSE, Null, Null, "")
      [] i = 3 -> LiveElement(1, TRUE, Null, 45, "abc")
      [] OTHER -> LiveElement(1, TRUE, 2, Null, "0.0")
LiveList(n) == [i \in 1..n |-> LiveAt(i)]
\* a list without the unknown player and the broken entry
CleanLiveList == <<LiveAt(3), LiveElement(minPlayersCount, TRUE, 1, 10, "1.5")>>
LiveChoices ==
    { Missing, NonArray, Arr(CleanLiveList) } \cup { Arr(LiveList(n)) : n \in 0..MaxLive }
LiveResponses ==
    { [ok |-> FALSE, elements |-> Missing] } \cup
    { [ok |-> TRUE, elements |-> el] : el \in LiveChoices }

\* fixtures/ (all fixtures)
FixturesChoices ==
    { Missing, NonArray, Arr(<<>>),
      Arr(<<Fixture(1, 2, 1, 1, 0, "true", "false")>>),
      Arr(<<Fixture(1, Null, 1, 1, Null, "null", "null"),
            Fixture(2, 1, 2, 1, 3, "true", "true")>>) }
FixturesResponses ==
    { [ok |-> FALSE, data |-> Missing] } \cup
    { [ok |-> TRUE, data |-> f] : f \in FixturesChoices }
DetectFixturesResponses ==
    { [ok |-> FALSE, data |-> Missing] } \cup
    { [ok |-> TRUE, data |-> f] : f \in DetectFixturesChoices }

\* ------------------------------------------------------------------------
\* Storage: the tables of the schema, each a map from primary key to row
\* ------------------------------------------------------------------------
EmptyTable == [i \in {} |-> 0]

TeamRow(nm, st, t) == [name |-> nm, strength |-> st, last_updated |-> t]
ElementTypeRow(nm, sq, t) == [singular_name |-> nm, squad_select |-> sq, last_updated |-> t]
EventRow(cur, t) == [is_current |-> cur, last_updated |-> t]
FixtureRow(ev, a, h, sa, st, fin, t) ==
    [event |-> ev, team_a |-> a, team_h |-> h, team_a_score |-> sa,
     started |-> st, finished |-> fin, last_updated |-> t]
PlayerRow(wn, tm, et, cd, cost, tp, fm, st, ep, mins, infl, t) ==
    [web_name |-> wn, team |-> tm, element_type |-> et, code |-> cd, now_cost |-> cost,
     total_points |-> tp, form |-> fm, status |-> st,
     event_points |-> ep, minutes |-> mins, influence |-> infl, last_updated |-> t]

EmptyDb ==
    [teams |-> EmptyTable, element_types |-> EmptyTable, events |-> EmptyTable,
     fixtures |-> EmptyTable, players |-> EmptyTable]

\* the tables schema.sql creates
AllTables == {"teams", "element_types", "events", "fixtures", "players"}

\* what an earlier run that stopped after its second player left behind, plus
\* one player of an earlier season
OldPlayerRow == PlayerRow("old", 2, 1, 5, 40, 3, "1.5", "i", 4, 30, "1.5", 0)
PartialDb ==
    [teams |-> (1 :> TeamRow("Arsenal", 1, 0) @@ 2 :> TeamRow("Chelsea", Null, 0)),
     element_types |-> (1 :> ElementTypeRow("Goalkeeper", 2, 0)),
     events |-> (1 :> EventRow(TRUE, 0) @@ 2 :> EventRow(FALSE, 0)),
     fixtures |-> (1 :> FixtureRow(1, 1, 2, 1, TRUE, FALSE, 0)),
     players |-> (1 :> OldPlayerRow @@ 2 :> OldPlayerRow
                  @@ (minPlayersCount + 1) :> OldPlayerRow)]

InitialDbNames == {"empty", "partial"}
InitialDb(name) == IF name = "empty" THEN EmptyDb ELSE PartialDb

\* a players table declared without its foreign keys
FKPlayerOk_Undeclared(d, team, element_type) == TRUE

\* FOREIGN KEY constraints of dbo.players and dbo.fixtures
FKPlayerOk(d, team, element_type) ==
    team \in DOMAIN d.teams /\ element_type \in DOMAIN d.element_types
FKFixtureOk(d, team_a, team_h, event) ==
    /\ team_a \in DOMAIN d.teams
    /\ team_h \in DOMAIN d.teams
    /\ (event = Null \/ event \in DOMAIN d.events)

\* MERGE ... WHEN MATCHED THEN UPDATE ... WHEN NOT MATCHED THEN INSERT, on one key
Upsert_DropUnmatched(table, id, row) ==
    [i \in {id} |-> row]

Upsert(table, id, row) ==
    [i \in DOMAIN table \cup {id} |-> IF i = id THEN row ELSE table[i]]

\* ------------------------------------------------------------------------
\* Live detection (checkIfGameIsLive)
\* ------------------------------------------------------------------------
\* events.find(event => event.is_current): the index of the first current
\* gameweek, 0 when there is none
CurrentIndex(events) ==
    IF \E i \in 1..Len(events) : events[i].is_current = "true"
    THEN CHOOSE i \in 1..Len(events) :
             /\ events[i].is_current = "true"
             /\ \A j \in 1..(i - 1) : events[j].is_current # "true"
    ELSE 0

\* a live test that takes a missing finished flag for "not finished"
IsLiveFixture_FinishedFalsy(f) == f.started = "true" /\ f.finished # "true"

\* fixture.started === true && fixture.finished === false
IsLiveFixture(f) == f.started = "true" /\ f.finished = "false"

\* fixtures.filter(...)
LiveFixtures(fixtures) == SelectSeq(fixtures, IsLiveFixture)

\* the bootstrap response makes the caller throw: a failed request, an empty
\* body, no events field, or an events value without find()
EventsUnusable(r) ==
    ~r.ok \/ ~r.data.present \/ Falsy(r.data.events) \/ ~IsArray(r.data.events)

\* ------------------------------------------------------------------------
\* Validation (validateData)
\* ------------------------------------------------------------------------
\* !x || !Array.isArray(x) || x.length === 0
InvalidOrEmpty(x) == Falsy(x) \/ ~IsArray(x) \/ Len(x.items) = 0

\* a check of the gameweek id by its type alone
InvalidGameweekId_TypeofOnly(id) == id = Null

\* !gameweekData.gameweekId || typeof gameweekData.gameweekId !== 'number'
InvalidGameweekId(id) == id = Null \/ id = 0

\* a validateData that takes an unexpected number of teams for a failure
validateData_HardTeamCount(bootstrap, gameweek, fixtures) ==
    IF ~bootstrap.present THEN FALSE
    ELSE IF InvalidOrEmpty(bootstrap.teams) THEN FALSE
    ELSE IF InvalidOrEmpty(bootstrap.elements) THEN FALSE
    ELSE IF InvalidOrEmpty(bootstrap.events) THEN FALSE
    ELSE IF InvalidOrEmpty(bootstrap.element_types) THEN FALSE
    ELSE IF InvalidGameweekId(gameweek.gameweekId) THEN FALSE
    ELSE IF InvalidOrEmpty(gameweek.elements) THEN FALSE
    ELSE IF InvalidOrEmpty(fixtures) THEN FALSE
    ELSE IF Len(bootstrap.teams.items) # expectedTeamsCount THEN FALSE
    ELSE IF Len(bootstrap.elements.items) < minPlayersCount THEN FALSE
    ELSE TRUE

\* a validateData without the check of the player count
validateData_NoPlayerCount(bootstrap, gameweek, fixtures) ==
    IF ~bootstrap.present THEN FALSE
    ELSE IF InvalidOrEmpty(bootstrap.teams) THEN FALSE
    ELSE IF InvalidOrEmpty(bootstrap.elements) THEN FALSE
    ELSE IF InvalidOrEmpty(bootstrap.events) THEN FALSE
    ELSE IF InvalidOrEmpty(bootstrap.element_types) THEN FALSE
    ELSE IF InvalidGameweekId(gameweek.gameweekId) THEN FALSE
    ELSE IF InvalidOrEmpty(gameweek.elements) THEN FALSE
    ELSE IF InvalidOrEmpty(fixtures) THEN FALSE
    ELSE TRUE

validateData(bootstrap, gameweek, fixtures) ==
    IF ~bootstrap.present THEN FALSE
    ELSE IF InvalidOrEmpty(bootstrap.teams) THEN FALSE
    ELSE IF InvalidOrEmpty(bootstrap.elements) THEN FALSE
    ELSE IF InvalidOrEmpty(bootstrap.events) THEN FALSE
    ELSE IF InvalidOrEmpty(bootstrap.element_types) THEN FALSE
    ELSE IF InvalidGameweekId(gameweek.gameweekId) THEN FALSE
    ELSE IF InvalidOrEmpty(gameweek.elements) THEN FALSE
    ELSE IF InvalidOrEmpty(fixtures) THEN FALSE
    ELSE IF Len(bootstrap.elements.items) < minPlayersCount THEN FALSE
    ELSE TRUE

\* a validateData that looks at the fixtures before the bootstrap data
validateDataErrors_FixturesFirst(bootstrap, gameweek, fixtures) ==
    IF InvalidOrEmpty(fixtures) THEN <<"Invalid or empty fixtures data">>
    ELSE IF ~bootstrap.present THEN <<"Bootstrap data is null or undefined">>
    ELSE IF InvalidOrEmpty(bootstrap.teams) THEN <<"Invalid or empty teams data">>
    ELSE IF InvalidOrEmpty(bootstrap.elements) THEN <<"Invalid or empty players (elements) data">>
    ELSE IF InvalidOrEmpty(bootstrap.events) THEN <<"Invalid or empty events data">>
    ELSE IF InvalidOrEmpty(bootstrap.element_types) THEN <<"Invalid or empty element_types data">>
    ELSE IF InvalidGameweekId(gameweek.gameweekId) THEN <<"Invalid gameweek ID">>
    ELSE IF InvalidOrEmpty(gameweek.elements) THEN <<"Invalid or empty gameweek elements data">>
    ELSE IF Len(bootstrap.elements.items) < minPlayersCount THEN <<"Invalid player count">>
    ELSE <<>>

\* validateData: the console.error lines it writes before it returns; each
\* failed check logs its message and returns false at once
validateDataErrors(bootstrap, gameweek, fixtures) ==
    IF ~bootstrap.present THEN <<"Bootstrap data is null or undefined">>
    ELSE IF InvalidOrEmpty(bootstrap.teams) THEN <<"Invalid or empty teams data">>
    ELSE IF InvalidOrEmpty(bootstrap.elements) THEN <<"Invalid or empty players (elements) data">>
    ELSE IF InvalidOrEmpty(bootstrap.events) THEN <<"Invalid or empty events data">>
    ELSE IF InvalidOrEmpty(bootstrap.element_types) THEN <<"Invalid or empty element_types data">>
    ELSE IF InvalidGameweekId(gameweek.gameweekId) THEN <<"Invalid gameweek ID">>
    ELSE IF InvalidOrEmpty(gameweek.elements) THEN <<"Invalid or empty gameweek elements data">>
    ELSE IF InvalidOrEmpty(fixtures) THEN <<"Invalid or empty fixtures data">>
    ELSE IF Len(bootstrap.elements.items) < minPlayersCount THEN <<"Invalid player count">>
    ELSE <<>>

\* validateData: the console.warn lines it writes. The team count is looked at
\* once the presence checks have passed, the gameweek count once the player
\* count has passed too; neither makes the function return.
validateDataWarnings(bootstrap, gameweek, fixtures) ==
    IF \/ ~bootstrap.present
       \/ InvalidOrEmpty(bootstrap.teams)
       \/ InvalidOrEmpty(bootstrap.elements)
       \/ InvalidOrEmpty(bootstrap.events)
       \/ InvalidOrEmpty(bootstrap.element_types)
       \/ InvalidGameweekId(gameweek.gameweekId)
       \/ InvalidOrEmpty(gameweek.elements)
       \/ InvalidOrEmpty(fixtures)
    THEN <<>>
    ELSE (IF Len(bootstrap.teams.items) # expectedTeamsCount
          THEN <<"Warning: teams">> ELSE <<>>)
         \o (IF Len(bootstrap.elements.items) >= minPlayersCount
                /\ Len(bootstrap.events.items) < minEventsCount
             THEN <<"Warning: events">> ELSE <<>>)

\* ------------------------------------------------------------------------
\* The rows the write statements produce
\* ------------------------------------------------------------------------
\* MERGE dbo.teams
MergeTeam(table, team, t) ==
    Upsert(table, team.id, TeamRow(team.name, OrNull(team.strength), t))

\* MERGE dbo.element_types
MergeElementType(table, type, t) ==
    Upsert(table, type.id, ElementTypeRow(type.singular_name, OrNull(type.squad_select), t))

\* MERGE dbo.events
MergeEvent(table, event, t) ==
    Upsert(table, event.id, EventRow(OrFalse(event.is_current), t))

\* MERGE dbo.fixtures
MergeFixture(table, fixture, t) ==
    Upsert(table, fixture.id,
           FixtureRow(OrNull(fixture.event), fixture.team_a, fixture.team_h,
                      OrNull(fixture.team_a_score),
                      OrFalse(fixture.started), OrFalse(fixture.finished), t))

\* player.status || 'a'
StatusOrA(s) == IF s = "" THEN "a" ELSE s

\* a MERGE whose UPDATE branch adds the points to the stored total
MergePlayer_Accumulate(table, player, t) ==
    IF player.id \in DOMAIN table
    THEN Upsert(table, player.id,
                [table[player.id] EXCEPT
                    !.web_name = player.web_name,
                    !.team = player.team,
                    !.element_type = player.element_type,
                    !.now_cost = player.now_cost,
                    !.total_points = @ + OrZero(player.total_points),
                    !.form = ParseFloatOr(player.form, "null"),
                    !.status = StatusOrA(player.status),
                    !.last_updated = t])
    ELSE Upsert(table, player.id,
                PlayerRow(player.web_name, player.team, player.element_type, player.code,
                          player.now_cost, OrZero(player.total_points),
                          ParseFloatOr(player.form, "null"), StatusOrA(player.status),
                          0, 0, "0", t))

\* MERGE dbo.players: the UPDATE branch leaves code and the live columns as
\* they are, the INSERT branch sets code and takes the column defaults
MergePlayer(table, player, t) ==
    IF player.id \in DOMAIN table
    THEN Upsert(table, player.id,
                [table[player.id] EXCEPT
                    !.web_name = player.web_name,
                    !.team = player.team,
                    !.element_type = player.element_type,
                    !.now_cost = player.now_cost,
                    !.total_points = OrZero(player.total_points),
                    !.form = ParseFloatOr(player.form, "null"),
                    !.status = StatusOrA(player.status),
                    !.last_updated = t])
    ELSE Upsert(table, player.id,
                PlayerRow(player.web_name, player.team, player.element_type, player.code,
                          player.now_cost, OrZero(player.total_points),
                          ParseFloatOr(player.form, "null"), StatusOrA(player.status),
                          0, 0, "0", t))

\* a live-stats statement that adds the snapshot's totals to the stored ones
UpdateLiveStats_Accumulate(table, element, t) ==
    IF element.id \in DOMAIN table
    THEN [table EXCEPT ![element.id] =
            [@ EXCEPT !.event_points = @ + OrZero(element.stats.total_points),
                      !.minutes = @ + OrZero(element.stats.minutes),
                      !.influence = ParseFloatOr(element.stats.influence, "0"),
                      !.last_updated = t]]
    ELSE table

\* a live-stats statement with an insert branch for unknown players
UpdateLiveStats_InsertUnknown(table, element, t) ==
    IF element.id \in DOMAIN table
    THEN [table EXCEPT ![element.id] =
            [@ EXCEPT !.event_points = OrZero(element.stats.total_points),
                      !.minutes = OrZero(element.stats.minutes),
                      !.influence = ParseFloatOr(element.stats.influence, "0"),
                      !.last_updated = t]]
    ELSE [i \in DOMAIN table \cup {element.id} |->
            IF i = element.id
            THEN PlayerRow("", 1, 1, 0, 0, 0, "null", "a",
                           OrZero(element.stats.total_points), OrZero(element.stats.minutes),
                           ParseFloatOr(element.stats.influence, "0"), t)
            ELSE table[i]]

\* a live-stats statement that also writes the season total
UpdateLiveStats_SetsTotalPoints(table, element, t) ==
    IF element.id \in DOMAIN table
    THEN [table EXCEPT ![element.id] =
            [@ EXCEPT !.event_points = OrZero(element.stats.total_points),
                      !.total_points = OrZero(element.stats.total_points),
                      !.minutes = OrZero(element.stats.minutes),
                      !.influence = ParseFloatOr(element.stats.influence, "0"),
                      !.last_updated = t]]
    ELSE table

\* UPDATE dbo.players SET <live columns> WHERE id = @player_id
UpdateLiveStats(table, element, t) ==
    IF element.id \in DOMAIN table
    THEN [table EXCEPT ![element.id] =
            [@ EXCEPT !.event_points = OrZero(element.stats.total_points),
                      !.minutes = OrZero(element.stats.minutes),
                      !.influence = ParseFloatOr(element.stats.influence, "0"),
                      !.last_updated = t]]
    ELSE table

\* number of rows the UPDATE affects
RowCount(table, element) == IF element.id \in DOMAIN table THEN 1 ELSE 0

\* ------------------------------------------------------------------------
\* State of one run of the script
\* ------------------------------------------------------------------------
VARIABLES
    pc,               \* where main (and the function it awaits) stands
    idx,              \* index of the record whose write is awaited
    exitCode,         \* process exit code, Null while running
    isGameLive,       \* result of checkIfGameIsLive: "pending", "true", "false"
    currentGameweek,  \* id of the gameweek found current by the running function
    detectEvents,     \* checkIfGameIsLive: events of its bootstrap response
    detectFixtures,   \* checkIfGameIsLive: fixtures of the current gameweek
    bootstrapData,    \* main: result of getBootstrapData
    gameweekData,     \* main: result of getCurrentGameweekData
    fixturesData,     \* main: result of getFixturesData
    conn,             \* the tedious connection: "none", "connecting", "open", "closed", "failed"
    db,               \* storage
    dbInit,           \* name of the storage state the run started from
    pass,             \* which application of the reference snapshot is under way (0: a plain run)
    dbOnce,           \* storage as the first application of the snapshot left it
    now,              \* GETUTCDATE(), a logical clock that ticks at every statement
    writeLog,         \* the write attempts so far: table, key, outcome
    updateCount,      \* updatePlayerStats: updateCount
    errorCount,       \* updatePlayerStats: errorCount
    rowsAffected,     \* rows the live UPDATE statements have changed in storage
    reason,           \* what ended the run, as its last output line tells; "" while running
    validationErrors, \* the console.error lines of validateData
    validationWarnings, \* the console.warn lines of validateData
    observe,          \* whether the run's view of the source is recorded (history, for the properties)
    detectedGameweek, \* history: id of the gameweek checkIfGameIsLive found live, when recorded
    currentsSeen,     \* history: most is_current gameweeks seen in one bootstrap answer, when recorded
    inFlight,         \* the requests issued (HTTP, connect, SQL) and not yet completed
    httpLog,          \* the HTTP requests completed so far: calling function, endpoint, status 200 or not
    output,           \* the lines main has written after its start line: stream and text
    promise,          \* callback variant of updatePlayerStats: "none", "pending", "resolved", "rejected"
    settleCalls,      \* callback variant: calls of resolve / reject (a throw in the executor included)
    schema,           \* the tables of dbo that exist
    batchError        \* the count carried by "Failed to update N players", Null if not thrown

vars ==
    <<pc, idx, exitCode, isGameLive, currentGameweek, detectEvents, detectFixtures,
      bootstrapData, gameweekData, fixturesData, conn, db, dbInit, pass, dbOnce, now,
      writeLog, updateCount, errorCount, rowsAffected, reason, validationErrors,
      validationWarnings, observe, detectedGameweek, currentsSeen, inFlight,
      httpLog, output, promise, settleCalls, schema, batchError>>

exitVars == <<exitCode, reason, validationErrors, validationWarnings, output>>
constVars == <<dbInit, pass, dbOnce, observe, promise, settleCalls, schema>>
detectVars ==
    <<isGameLive, currentGameweek, detectEvents, detectFixtures, detectedGameweek, currentsSeen>>
fetchVars == <<bootstrapData, gameweekData, fixturesData, httpLog>>
storeVars == <<conn, db, now, writeLog>>
batchVars == <<updateCount, errorCount, rowsAffected, batchError>>

NoGameweekData == [gameweekId |-> Null, elements |-> Missing]

Init ==
    /\ pc = "start"
    /\ idx = 0
    /\ exitCode = Null
    /\ isGameLive = "pending"
    /\ currentGameweek = Null
    /\ detectEvents = Missing
    /\ detectFixtures = Missing
    /\ bootstrapData = NoData
    /\ gameweekData = NoGameweekData
    /\ fixturesData = Missing
    /\ conn = "none"
    /\ dbInit \in InitialDbNames
    /\ db = InitialDb(dbInit)
    /\ pass = 0
    /\ dbOnce = EmptyDb
    /\ observe = FALSE
    /\ detectedGameweek = Null
    /\ currentsSeen = 0
    /\ now = 1
    /\ writeLog = <<>>
    /\ updateCount = 0
    /\ errorCount = 0
    /\ rowsAffected = 0
    /\ reason = ""
    /\ validationErrors = <<>>
    /\ validationWarnings = <<>>
    /\ inFlight = {}
    /\ httpLog = <<>>
    /\ output = <<>>
    /\ promise = "none"
    /\ settleCalls = 0
    /\ schema = AllTables
    /\ batchError = Null

\* number of gameweeks of an events list with is_current
CurrentCount(events) == Cardinality({ i \in 1..Len(events) : events[i].is_current = "true" })

\* history: the record of the most current gameweeks seen, after this list
SeenWith(events) ==
    IF observe /\ CurrentCount(events) > currentsSeen THEN CurrentCount(events) ELSE currentsSeen

\* the request that is awaited at position at, for record i of a write phase
Request(at, i) ==
    CASE at \in {"detect_bootstrap", "fetch_bootstrap", "gw_bootstrap"} ->
             [kind |-> "http", what |-> "bootstrap-static", i |-> 0]
      [] at = "detect_fixtures" -> [kind |-> "http", what |-> "fixtures?event", i |-> 0]
      [] at = "gw_live" -> [kind |-> "http", what |-> "live", i |-> 0]
      [] at = "fetch_fixtures" -> [kind |-> "http", what |-> "fixtures", i |-> 0]
      [] at = "connect" -> [kind |-> "sql", what |-> "connect", i |-> 0]
      [] at \in {"teams", "element_types", "events", "fixtures", "players", "player_stats"} ->
             [kind |-> "sql", what |-> at, i |-> i]
      [] OTHER -> [kind |-> "none", what |-> at, i |-> 0]

\* an updatePlayerStats that hands every UPDATE to the connection at once, as
\* a forEach over the elements does
IssuedOn_AllStatsAtOnce(at, i) ==
    IF at = "player_stats"
    THEN IF i = 1
         THEN { Request(at, j) : j \in 1..Len(gameweekData.elements.items) }
         ELSE {}
    ELSE IF Request(at, i).kind = "none" THEN {} ELSE {Request(at, i)}

\* the requests the code issues when it arrives at position at: the one it
\* then awaits; none where it runs on without awaiting (start, detected,
\* validate, exit, and updatePlayerStats past its last row)
IssuedOn(at, i) ==
    IF Request(at, i).kind = "none" THEN {}
    ELSE IF at = "player_stats" /\ i > Len(gameweekData.elements.items) THEN {}
    ELSE {Request(at, i)}

\* console.log / console.error of main
Say(stream, text) == output' = Append(output, [stream |-> stream, text |-> text])

\* process.exit(code); why names the path that led to it
Exit(code, why) ==
    /\ pc' = "exit"
    /\ exitCode' = code
    /\ reason' = why
    /\ UNCHANGED <<validationErrors, validationWarnings>>

\* a catch block that reports the error and exits with code 0
Throw_ExitZero(why) == Exit(0, why) /\ Say("error", "Error in update script")

\* a catch block that exits with code 1 and writes nothing
Throw_Silent(why) == Exit(1, why) /\ UNCHANGED output

\* an exception reaches main's catch block: console.error, process.exit(1)
Throw(why) == Exit(1, why) /\ Say("error", "Error in update script")

\* main() is called
Main_Start ==
    /\ pc = "start"
    /\ pc' = "detect_bootstrap"
    /\ UNCHANGED <<idx, exitVars, detectVars, fetchVars, storeVars, constVars, batchVars>>
    /\ inFlight' = (inFlight \ {Request(pc, idx)}) \cup IssuedOn(pc', idx')

\* checkIfGameIsLive: the bootstrap request completes
CheckIfGameIsLive_Bootstrap ==
    /\ pc = "detect_bootstrap"
    /\ \E r \in EventsResponses :
         /\ httpLog' = Append(httpLog, [by |-> "checkIfGameIsLive", what |-> Request(pc, idx).what,
                                        ok |-> r.ok])
         /\ IF EventsUnusable(r)
            THEN /\ Throw("fetch_error")
                 /\ detectEvents' = r.data.events
                 /\ UNCHANGED <<isGameLive, currentGameweek, detectFixtures, currentsSeen>>
            ELSE LET c == CurrentIndex(r.data.events.items)
                 IN /\ detectEvents' = r.data.events
                    /\ currentsSeen' = SeenWith(r.data.events.items)
                    /\ UNCHANGED exitVars
                    /\ UNCHANGED detectFixtures
                    /\ IF c = 0
                       THEN /\ isGameLive' = "false"
                            /\ pc' = "detected"
                            /\ UNCHANGED currentGameweek
                       ELSE /\ currentGameweek' = r.data.events.items[c].id
                            /\ pc' = "detect_fixtures"
                            /\ UNCHANGED isGameLive
    /\ UNCHANGED <<idx, detectedGameweek, bootstrapData, gameweekData, fixturesData, storeVars, constVars, batchVars>>
    /\ inFlight' = (inFlight \ {Request(pc, idx)}) \cup IssuedOn(pc', idx')

\* checkIfGameIsLive: the fixtures request of the current gameweek completes
CheckIfGameIsLive_Fixtures ==
    /\ pc = "detect_fixtures"
    /\ \E r \in DetectFixturesResponses :
         /\ httpLog' = Append(httpLog, [by |-> "checkIfGameIsLive", what |-> Request(pc, idx).what,
                                        ok |-> r.ok])
         /\ IF ~r.ok \/ Falsy(r.data) \/ ~IsArray(r.data)
            THEN /\ Throw("fetch_error")
                 /\ detectFixtures' = r.data
                 /\ UNCHANGED isGameLive
            ELSE /\ detectFixtures' = r.data
                 /\ isGameLive' = IF Len(LiveFixtures(r.data.items)) > 0 THEN "true" ELSE "false"
                 /\ pc' = "detected"
                 /\ UNCHANGED exitVars
    /\ UNCHANGED <<idx, currentGameweek, detectEvents, detectedGameweek, currentsSeen,
                   bootstrapData, gameweekData, fixturesData, storeVars, constVars, batchVars>>
    /\ inFlight' = (inFlight \ {Request(pc, idx)}) \cup IssuedOn(pc', idx')

\* a main that goes on to fetch whatever the live check returned
Main_LiveDecision_NoSkip ==
    /\ pc = "detected"
    /\ pc' = "fetch_bootstrap"
    /\ detectEvents' = Missing
    /\ detectFixtures' = Missing
    /\ currentGameweek' = Null
    /\ detectedGameweek' = IF observe THEN currentGameweek ELSE detectedGameweek
    /\ UNCHANGED <<idx, exitVars, isGameLive, currentsSeen, fetchVars, storeVars, constVars,
                   batchVars>>
    /\ inFlight' = (inFlight \ {Request(pc, idx)}) \cup IssuedOn(pc', idx')

\* main: if (!isGameLive) process.exit(0), else go on to fetch
Main_LiveDecision ==
    /\ pc = "detected"
    /\ IF isGameLive = "false"
       THEN /\ Exit(0, "skipped")
            /\ Say("log", "No live games. Skipping update.")
       ELSE /\ pc' = "fetch_bootstrap"
            /\ Say("log", "Live game detected! Updating database...")
            /\ UNCHANGED <<exitCode, reason, validationErrors, validationWarnings>>
    /\ detectEvents' = Missing
    /\ detectFixtures' = Missing
    /\ currentGameweek' = Null
    /\ detectedGameweek' = IF observe THEN currentGameweek ELSE detectedGameweek
    /\ UNCHANGED <<idx, isGameLive, currentsSeen, fetchVars, storeVars, constVars, batchVars>>
    /\ inFlight' = (inFlight \ {Request(pc, idx)}) \cup IssuedOn(pc', idx')

\* getBootstrapData
GetBootstrapData ==
    /\ pc = "fetch_bootstrap"
    /\ \E r \in BootstrapResponses :
         /\ httpLog' = Append(httpLog, [by |-> "getBootstrapData", what |-> Request(pc, idx).what,
                                        ok |-> r.ok])
         /\ IF ~r.ok \/ ~r.data.present
            THEN Throw("fetch_error") /\ UNCHANGED bootstrapData
            ELSE bootstrapData' = r.data /\ pc' = "gw_bootstrap" /\ UNCHANGED exitVars
    /\ UNCHANGED <<idx, detectVars, gameweekData, fixturesData, storeVars, constVars, batchVars>>
    /\ inFlight' = (inFlight \ {Request(pc, idx)}) \cup IssuedOn(pc', idx')

\* getCurrentGameweekData: the bootstrap request completes
GetCurrentGameweekData_Bootstrap ==
    /\ pc = "gw_bootstrap"
    /\ \E r \in EventsResponses :
         /\ httpLog' = Append(httpLog, [by |-> "getCurrentGameweekData", what |-> Request(pc, idx).what,
                                        ok |-> r.ok])
         /\ IF EventsUnusable(r) \/ CurrentIndex(r.data.events.items) = 0
            THEN Throw("fetch_error") /\ UNCHANGED <<currentGameweek, currentsSeen>>
            ELSE /\ currentGameweek' = r.data.events.items[CurrentIndex(r.data.events.items)].id
                 /\ currentsSeen' = SeenWith(r.data.events.items)
                 /\ pc' = "gw_live"
                 /\ UNCHANGED exitVars
    /\ UNCHANGED <<idx, isGameLive, detectEvents, detectFixtures, detectedGameweek, bootstrapData,
                   gameweekData, fixturesData, storeVars, constVars, batchVars>>
    /\ inFlight' = (inFlight \ {Request(pc, idx)}) \cup IssuedOn(pc', idx')

\* a getCurrentGameweekData that returns the live answer without looking at
\* its elements field
GetCurrentGameweekData_Live_Unchecked ==
    /\ pc = "gw_live"
    /\ \E r \in LiveResponses :
         /\ httpLog' = Append(httpLog, [by |-> "getCurrentGameweekData", what |-> Request(pc, idx).what,
                                        ok |-> r.ok])
         /\ IF ~r.ok
            THEN Throw("fetch_error") /\ UNCHANGED gameweekData
            ELSE /\ gameweekData' = [gameweekId |-> currentGameweek, elements |-> r.elements]
                 /\ pc' = "fetch_fixtures"
                 /\ UNCHANGED exitVars
    /\ currentGameweek' = Null
    /\ UNCHANGED <<idx, isGameLive, detectEvents, detectFixtures, detectedGameweek,
                   currentsSeen, bootstrapData, fixturesData, storeVars, constVars, batchVars>>
    /\ inFlight' = (inFlight \ {Request(pc, idx)}) \cup IssuedOn(pc', idx')

\* getCurrentGameweekData: the live request completes
GetCurrentGameweekData_Live ==
    /\ pc = "gw_live"
    /\ \E r \in LiveResponses :
         /\ httpLog' = Append(httpLog, [by |-> "getCurrentGameweekData", what |-> Request(pc, idx).what,
                                        ok |-> r.ok])
         /\ IF ~r.ok \/ Falsy(r.elements)
            THEN Throw("fetch_error") /\ UNCHANGED gameweekData
            ELSE /\ gameweekData' = [gameweekId |-> currentGameweek, elements |-> r.elements]
                 /\ pc' = "fetch_fixtures"
                 /\ UNCHANGED exitVars
    /\ currentGameweek' = Null
    /\ UNCHANGED <<idx, isGameLive, detectEvents, detectFixtures, detectedGameweek,
                   currentsSeen, bootstrapData, fixturesData, storeVars, constVars, batchVars>>
    /\ inFlight' = (inFlight \ {Request(pc, idx)}) \cup IssuedOn(pc', idx')

\* a getFixturesData that asks again when its request fails
GetFixturesData_Retry ==
    /\ pc = "fetch_fixtures"
    /\ \E r \in FixturesResponses :
         /\ httpLog' = Append(httpLog, [by |-> "getFixturesData", what |-> Request(pc, idx).what,
                                        ok |-> r.ok])
         /\ IF ~r.ok
            THEN UNCHANGED <<pc, exitVars, fixturesData>>
            ELSE IF Falsy(r.data) \/ ~IsArray(r.data)
            THEN Throw("fetch_error") /\ UNCHANGED fixturesData
            ELSE fixturesData' = r.data /\ pc' = "validate" /\ UNCHANGED exitVars
    /\ UNCHANGED <<idx, detectVars, bootstrapData, gameweekData, storeVars, constVars, batchVars>>
    /\ inFlight' = (inFlight \ {Request(pc, idx)}) \cup IssuedOn(pc', idx')

\* getFixturesData
GetFixturesData ==
    /\ pc = "fetch_fixtures"
    /\ \E r \in FixturesResponses :
         /\ httpLog' = Append(httpLog, [by |-> "getFixturesData", what |-> Request(pc, idx).what,
                                        ok |-> r.ok])
         /\ IF ~r.ok \/ Falsy(r.data) \/ ~IsArray(r.data)
            THEN Throw("fetch_error") /\ UNCHANGED fixturesData
            ELSE fixturesData' = r.data /\ pc' = "validate" /\ UNCHANGED exitVars
    /\ UNCHANGED <<idx, detectVars, bootstrapData, gameweekData, storeVars, constVars, batchVars>>
    /\ inFlight' = (inFlight \ {Request(pc, idx)}) \cup IssuedOn(pc', idx')

\* a main that calls updateDatabase whatever validateData returned
Main_Validate_Ignored ==
    /\ pc = "validate"
    /\ pc' = "connect"
    /\ conn' = "connecting"
    /\ UNCHANGED <<idx, exitVars, detectVars, fetchVars, db, now, writeLog, constVars, batchVars>>
    /\ inFlight' = (inFlight \ {Request(pc, idx)}) \cup IssuedOn(pc', idx')

\* main: validateData, then process.exit(1) or updateDatabase, which opens the
\* connection
Main_Validate ==
    /\ pc = "validate"
    /\ IF validateData(bootstrapData, gameweekData, fixturesData)
       THEN /\ pc' = "connect"
            /\ conn' = "connecting"
            /\ UNCHANGED <<exitCode, reason, output>>
       ELSE /\ pc' = "exit"
            /\ exitCode' = 1
            /\ reason' = "validation_failed"
            /\ Say("error", "Data validation failed. Skipping database update to prevent data corruption.")
            /\ conn' = conn
    /\ validationErrors' = validateDataErrors(bootstrapData, gameweekData, fixturesData)
    /\ validationWarnings' = validateDataWarnings(bootstrapData, gameweekData, fixturesData)
    /\ UNCHANGED <<idx, detectVars, fetchVars, db, now, writeLog, constVars, batchVars>>
    /\ inFlight' = (inFlight \ {Request(pc, idx)}) \cup IssuedOn(pc', idx')

\* ------------------------------------------------------------------------
\* Persistence (updateDatabase and the update functions)
\* ------------------------------------------------------------------------
\* an updateDatabase that never calls updateEvents
PhaseOrder_NoEvents == <<"teams", "element_types", "fixtures", "players">>

\* an updateDatabase that awaits updatePlayers first
PhaseOrder_PlayersFirst == <<"players", "teams", "element_types", "events", "fixtures">>

\* updateDatabase: the reference tables in the order their update functions
\* are awaited; updatePlayerStats comes last
PhaseOrder == <<"teams", "element_types", "events", "fixtures", "players">>

\* the list an update function iterates over
PhaseItems(p) ==
    CASE p = "teams" -> bootstrapData.teams.items
      [] p = "element_types" -> bootstrapData.element_types.items
      [] p = "events" -> bootstrapData.events.items
      [] p = "fixtures" -> fixturesData.items
      [] p = "players" -> bootstrapData.elements.items
      [] OTHER -> gameweekData.elements.items

\* the k-th update function and those after it: the first whose list has a
\* record to write (a for loop over an empty list awaits nothing)
RECURSIVE PhaseFrom(_)
PhaseFrom(k) ==
    IF k > Len(PhaseOrder) THEN "player_stats"
    ELSE IF Len(PhaseItems(PhaseOrder[k])) > 0 THEN PhaseOrder[k]
    ELSE PhaseFrom(k + 1)

PhaseIndex(p) == CHOOSE k \in 1..Len(PhaseOrder) : PhaseOrder[k] = p

\* the 'connect' event: with an error the promise is rejected and main exits 1,
\* without one the first update function starts
UpdateDatabase_Connect ==
    /\ pc = "connect"
    /\ \E err \in BOOLEAN :
         IF err
         THEN Throw("connect_error") /\ conn' = "failed" /\ idx' = idx
         ELSE pc' = PhaseFrom(1) /\ idx' = 1 /\ conn' = "open" /\ UNCHANGED exitVars
    /\ UNCHANGED <<detectVars, fetchVars, db, now, writeLog, constVars, batchVars>>
    /\ inFlight' = (inFlight \ {Request(pc, idx)}) \cup IssuedOn(pc', idx')

\* an 'error' handler that only logs: the promise of updateDatabase stays
\* pending and the awaited request is never answered
Connection_Error_Swallowed ==
    /\ conn = "open"
    /\ pc \in {"teams", "element_types", "events", "fixtures", "players", "player_stats"}
    /\ idx <= Len(PhaseItems(pc))
    /\ conn' = "broken"
    /\ UNCHANGED <<pc, idx, exitVars, detectVars, fetchVars, db, now, writeLog, constVars,
                   batchVars>>
    /\ inFlight' = inFlight

\* an 'error' handler whose rejection is recorded while the write sequence
\* goes on
Connection_Error_RejectOnly ==
    /\ conn = "open"
    /\ pc \in {"teams", "element_types", "events", "fixtures", "players", "player_stats"}
    /\ idx <= Len(PhaseItems(pc))
    /\ exitCode = Null
    /\ exitCode' = 1
    /\ reason' = "connection_error"
    /\ Say("error", "Error in update script")
    /\ UNCHANGED <<pc, idx, validationErrors, validationWarnings, detectVars, fetchVars,
                   storeVars, constVars, batchVars>>
    /\ inFlight' = inFlight

\* the 'error' event of the open connection while a request is awaited:
\* reject(err), main's catch exits 1; nothing closes the connection
Connection_Error ==
    /\ conn = "open"
    /\ pc \in {"teams", "element_types", "events", "fixtures", "players", "player_stats"}
    /\ idx <= Len(PhaseItems(pc))
    /\ Throw("connection_error")
    /\ UNCHANGED <<idx, detectVars, fetchVars, storeVars, constVars, batchVars>>
    /\ inFlight' = inFlight

\* an update function that logs a failed MERGE and goes on with the next record
RefWrite_BestEffort(p, id, canSucceed, newDb) ==
    /\ pc = p
    /\ conn = "open"
    /\ \E ok \in BOOLEAN :
         /\ ok => canSucceed
         /\ writeLog' = Append(writeLog, [tbl |-> p, id |-> id, ok |-> ok])
         /\ now' = now + 1
         /\ db' = IF ok THEN newDb ELSE db
         /\ conn' = conn
         /\ UNCHANGED exitVars
         /\ IF idx < Len(PhaseItems(p))
            THEN pc' = pc /\ idx' = idx + 1
            ELSE pc' = PhaseFrom(PhaseIndex(p) + 1) /\ idx' = 1
    /\ UNCHANGED <<detectVars, fetchVars, constVars, batchVars>>
    /\ inFlight' = (inFlight \ {Request(pc, idx)}) \cup IssuedOn(pc', idx')

\* One MERGE request of a reference table completes. The statement fails when a
\* constraint of the schema rejects it and may fail for any other reason
\* (timeout, lost connection); a failed statement changes nothing. On failure
\* the update function throws: updateDatabase closes the connection and
\* rejects, main exits 1.
RefWrite(p, id, canSucceed, newDb) ==
    /\ pc = p
    /\ conn = "open"
    /\ \E ok \in BOOLEAN :
         /\ ok => canSucceed
         /\ writeLog' = Append(writeLog, [tbl |-> p, id |-> id, ok |-> ok])
         /\ now' = now + 1
         /\ IF ok
            THEN /\ db' = newDb
                 /\ conn' = conn
                 /\ UNCHANGED exitVars
                 /\ IF idx < Len(PhaseItems(p))
                    THEN pc' = pc /\ idx' = idx + 1
                    ELSE pc' = PhaseFrom(PhaseIndex(p) + 1) /\ idx' = 1
            ELSE /\ db' = db
                 /\ conn' = "closed"
                 /\ Throw("write_error")
                 /\ idx' = idx
    /\ UNCHANGED <<detectVars, fetchVars, constVars, batchVars>>
    /\ inFlight' = (inFlight \ {Request(pc, idx)}) \cup IssuedOn(pc', idx')

UpdateTeams ==
    /\ pc = "teams"
    /\ LET team == PhaseItems("teams")[idx]
       IN RefWrite("teams", team.id, TRUE, [db EXCEPT !.teams = MergeTeam(@, team, now)])

UpdateElementTypes ==
    /\ pc = "element_types"
    /\ LET type == PhaseItems("element_types")[idx]
       IN RefWrite("element_types", type.id, TRUE,
                   [db EXCEPT !.element_types = MergeElementType(@, type, now)])

UpdateEvents ==
    /\ pc = "events"
    /\ LET event == PhaseItems("events")[idx]
       IN RefWrite("events", event.id, TRUE, [db EXCEPT !.events = MergeEvent(@, event, now)])

UpdateFixtures ==
    /\ pc = "fixtures"
    /\ LET fixture == PhaseItems("fixtures")[idx]
       IN RefWrite("fixtures", fixture.id,
                   FKFixtureOk(db, fixture.team_a, fixture.team_h, OrNull(fixture.event)),
                   [db EXCEPT !.fixtures = MergeFixture(@, fixture, now)])

UpdatePlayers ==
    /\ pc = "players"
    /\ LET player == PhaseItems("players")[idx]
       IN RefWrite("players", player.id,
                   FKPlayerOk(db, player.team, player.element_type),
                   [db EXCEPT !.players = MergePlayer(@, player, now)])

\* an updatePlayerStats whose catch block logs the row and does not count it
UpdatePlayerStats_Row_Uncounted ==
    /\ pc = "player_stats"
    /\ conn = "open"
    /\ idx <= Len(PhaseItems("player_stats"))
    /\ LET element == PhaseItems("player_stats")[idx]
       IN \E ok \in BOOLEAN :
            /\ ok => element.hasStats
            /\ writeLog' = Append(writeLog, [tbl |-> "player_stats", id |-> element.id, ok |-> ok])
            /\ now' = now + 1
            /\ IF ok
               THEN /\ db' = [db EXCEPT !.players = UpdateLiveStats(@, element, now)]
                    /\ rowsAffected' = rowsAffected + RowCount(db.players, element)
                    /\ updateCount' = updateCount + 1
               ELSE /\ db' = db
                    /\ rowsAffected' = rowsAffected
                    /\ updateCount' = updateCount
    /\ errorCount' = errorCount
    /\ idx' = idx + 1
    /\ UNCHANGED <<pc, exitVars, detectVars, fetchVars, conn, constVars, batchError>>
    /\ inFlight' = (inFlight \ {Request(pc, idx)}) \cup IssuedOn(pc', idx')

\* an updatePlayerStats that gives up at the first row that fails
UpdatePlayerStats_Row_FailFast ==
    /\ pc = "player_stats"
    /\ conn = "open"
    /\ idx <= Len(PhaseItems("player_stats"))
    /\ LET element == PhaseItems("player_stats")[idx]
       IN \E ok \in BOOLEAN :
            /\ ok => element.hasStats
            /\ writeLog' = Append(writeLog, [tbl |-> "player_stats", id |-> element.id, ok |-> ok])
            /\ now' = now + 1
            /\ IF ok
               THEN /\ db' = [db EXCEPT !.players = UpdateLiveStats(@, element, now)]
                    /\ rowsAffected' = rowsAffected + RowCount(db.players, element)
                    /\ updateCount' = updateCount + 1
                    /\ UNCHANGED <<errorCount, batchError, pc, exitVars, conn>>
               ELSE /\ errorCount' = errorCount + 1
                    /\ batchError' = errorCount + 1
                    /\ conn' = "closed"
                    /\ Throw("batch_error")
                    /\ UNCHANGED <<db, rowsAffected, updateCount>>
    /\ idx' = idx + 1
    /\ UNCHANGED <<detectVars, fetchVars, constVars>>
    /\ inFlight' = (inFlight \ {Request(pc, idx)}) \cup IssuedOn(pc', idx')

\* updatePlayerStats: the UPDATE of one live row completes. An entry without a
\* stats object makes the promise executor throw; any request may fail. Either
\* way the row is counted in errorCount and the loop goes on.
UpdatePlayerStats_Row ==
    /\ pc = "player_stats"
    /\ conn = "open"
    /\ idx <= Len(PhaseItems("player_stats"))
    /\ LET element == PhaseItems("player_stats")[idx]
       IN \E ok \in BOOLEAN :
            /\ ok => element.hasStats
            /\ writeLog' = Append(writeLog, [tbl |-> "player_stats", id |-> element.id, ok |-> ok])
            /\ now' = now + 1
            /\ IF ok
               THEN /\ db' = [db EXCEPT !.players = UpdateLiveStats(@, element, now)]
                    /\ rowsAffected' = rowsAffected + RowCount(db.players, element)
                    /\ updateCount' = updateCount + 1
                    /\ errorCount' = errorCount
               ELSE /\ db' = db
                    /\ rowsAffected' = rowsAffected
                    /\ updateCount' = updateCount
                    /\ errorCount' = errorCount + 1
    /\ idx' = idx + 1
    /\ UNCHANGED <<pc, exitVars, detectVars, fetchVars, conn, constVars, batchError>>
    /\ inFlight' = (inFlight \ {Request(pc, idx)}) \cup IssuedOn(pc', idx')

\* an updatePlayerStats that returns normally whatever errorCount is
UpdatePlayerStats_Finish_NoThrow ==
    /\ pc = "player_stats"
    /\ conn = "open"
    /\ idx > Len(PhaseItems("player_stats"))
    /\ conn' = "closed"
    /\ Exit(0, "updated")
    /\ Say("log", "Database update completed successfully")
    /\ UNCHANGED <<idx, detectVars, fetchVars, db, now, writeLog, constVars, batchVars>>
    /\ inFlight' = (inFlight \ {Request(pc, idx)}) \cup IssuedOn(pc', idx')

\* updatePlayerStats after its loop, and what follows without a further await:
\* with errors it throws, updateDatabase closes the connection and rejects and
\* main exits 1; without, updateDatabase closes and resolves and main exits 0
UpdatePlayerStats_Finish ==
    /\ pc = "player_stats"
    /\ conn = "open"
    /\ idx > Len(PhaseItems("player_stats"))
    /\ conn' = "closed"
    /\ IF errorCount > 0
       THEN batchError' = errorCount /\ Throw("batch_error")
       ELSE /\ batchError' = batchError
            /\ Exit(0, "updated")
            /\ Say("log", "Database update completed successfully")
    /\ UNCHANGED <<idx, detectVars, fetchVars, db, now, writeLog, constVars,
                   updateCount, errorCount, rowsAffected>>
    /\ inFlight' = (inFlight \ {Request(pc, idx)}) \cup IssuedOn(pc', idx')

Next ==
    \/ Main_Start
    \/ CheckIfGameIsLive_Bootstrap
    \/ CheckIfGameIsLive_Fixtures
    \/ Main_LiveDecision
    \/ GetBootstrapData
    \/ GetCurrentGameweekData_Bootstrap
    \/ GetCurrentGameweekData_Live
    \/ GetFixturesData
    \/ Main_Validate
    \/ UpdateDatabase_Connect
    \/ Connection_Error
    \/ UpdateTeams
    \/ UpdateElementTypes
    \/ UpdateEvents
    \/ UpdateFixtures
    \/ UpdatePlayers
    \/ UpdatePlayerStats_Row
    \/ UpdatePlayerStats_Finish

Spec == Init /\ [][Next]_vars

\* every network request and every database connect or request is answered,
\* fails or times out: a run that can take a step eventually takes one
SpecFair == Init /\ [][Next]_vars /\ WF_vars(Next)

\* ------------------------------------------------------------------------
\* Properties
\* ------------------------------------------------------------------------
\* no statement was sent to storage and storage is as the run found it
NothingWritten == writeLog = <<>> /\ db = InitialDb(dbInit) /\ conn = "none"

\* C1: a run whose live check returned false ends with exit code 0 and
\* without any storage write: no request is issued, no connection is opened and
\* storage is what it was when the run started.
C1_SkipWritesNothing ==
    isGameLive = "false" =>
        /\ NothingWritten
        /\ pc \in {"detected", "exit"}
        /\ (pc = "exit" => exitCode = 0)

C1_Witness ==
    pc = "exit" /\ isGameLive = "false" /\ exitCode = 0 /\ dbInit = "partial"

\* some gameweek of the events list has is_current
HasCurrentGameweek(events) ==
    \E i \in 1..Len(events.items) : events.items[i].is_current = "true"

\* some fixture of the list has started = true and finished = false
HasLiveFixture(fixtures) ==
    \E j \in 1..Len(fixtures.items) :
        fixtures.items[j].started = "true" /\ fixtures.items[j].finished = "false"

\* C2: checkIfGameIsLive returns true exactly when some gameweek is current and
\* some fixture returned for it has started = true and finished = false; with
\* an events array without a current gameweek, or with a fixtures array (empty
\* or not) without a live fixture, it returns false and does not throw.
C2_LiveIffCurrentAndLiveFixture ==
    /\ pc = "detected" =>
         /\ isGameLive \in {"true", "false"}
         /\ (isGameLive = "true") <=>
                (HasCurrentGameweek(detectEvents) /\ HasLiveFixture(detectFixtures))
    /\ (pc = "exit" /\ isGameLive = "pending") =>
         \/ ~IsArray(detectEvents)
         \/ (HasCurrentGameweek(detectEvents) /\ ~IsArray(detectFixtures))

C2_Witness ==
    /\ pc = "detected"
    /\ isGameLive = "true"
    /\ Len(detectFixtures.items) = 2
    /\ ~IsLiveFixture(detectFixtures.items[1])

\* validateData has been called on the fetched data
ValidationRan == IsArray(fixturesData) /\ pc # "validate"

\* C3: when validateData reports a hard failure the run exits with code 1 and
\* has written nothing: no request, no connection, storage unchanged.
C3_ValidationFailureWritesNothing ==
    (ValidationRan /\ ~validateData(bootstrapData, gameweekData, fixturesData)) =>
        /\ pc = "exit"
        /\ exitCode = 1
        /\ NothingWritten

C3_Witness ==
    /\ pc = "exit"
    /\ reason = "validation_failed"
    /\ dbInit = "partial"
    /\ Len(bootstrapData.elements.items) = minPlayersCount - 1

\* C4: a fetch that throws, in detection or in the data fetch, ends the run with
\* exit code 1 before any storage write is attempted.
C4_FetchErrorFailsWithoutWrite ==
    reason = "fetch_error" =>
        /\ pc = "exit"
        /\ exitCode = 1
        /\ NothingWritten

C4_Witness ==
    /\ pc = "exit"
    /\ reason = "fetch_error"
    /\ isGameLive = "true"
    /\ IsArray(gameweekData.elements)

\* number of records the write phase has to write
TotalRecords ==
    Len(bootstrapData.teams.items) + Len(bootstrapData.element_types.items)
    + Len(bootstrapData.events.items) + Len(fixturesData.items)
    + Len(bootstrapData.elements.items) + Len(gameweekData.elements.items)

\* validation passed, every record was written and no write failed
FullyWritten ==
    /\ IsArray(fixturesData)
    /\ validateData(bootstrapData, gameweekData, fixturesData)
    /\ Len(writeLog) = TotalRecords
    /\ \A j \in 1..Len(writeLog) : writeLog[j].ok

\* C5: the exit code is 0 exactly when the run was skipped or when validation
\* passed and every reference write and every live row succeeded; every other
\* run exits with code 1.
C5_ExitCodeZeroIffSkipOrSuccess ==
    pc = "exit" =>
        /\ exitCode \in {0, 1}
        /\ (exitCode = 0) <=> (isGameLive = "false" \/ FullyWritten)

C5_Witness ==
    pc = "exit" /\ exitCode = 0 /\ isGameLive = "true" /\ Len(writeLog) = TotalRecords

\* the successful writes of table t in the log
DoneIn(t) == { j \in 1..Len(writeLog) : writeLog[j].tbl = t /\ writeLog[j].ok }
\* every record of table t has been written
AllDone(t) == Cardinality(DoneIn(t)) = Len(PhaseItems(t))
\* no write of table t has been attempted
NoneOf(t) == \A j \in 1..Len(writeLog) : writeLog[j].tbl # t

\* the pairs (t1, t2) of the referential order: t1 is written before t2
MustPrecede ==
    { <<"teams", "players">>, <<"element_types", "players">>, <<"events", "fixtures">>,
      <<"teams", "player_stats">>, <<"element_types", "player_stats">>,
      <<"events", "player_stats">>, <<"fixtures", "player_stats">>,
      <<"players", "player_stats">> }

\* C6: writes follow the referential order. Whenever a write has just been
\* attempted (it is the last entry of the log): if it is a write of a table t2,
\* every record of each table t1 that must precede t2 has been written, and if
\* it is a write of a table t1, no write of a table t2 that must follow t1 has
\* been attempted. Every write is at one moment the last of the log.
C6_ReferentialWriteOrder ==
    Len(writeLog) > 0 =>
        LET last == writeLog[Len(writeLog)]
        IN \A o \in MustPrecede :
             /\ (last.tbl = o[2] => AllDone(o[1]))
             /\ (last.tbl = o[1] => NoneOf(o[2]))

C6_Witness ==
    /\ Len(writeLog) > 0
    /\ Len(writeLog) = TotalRecords
    /\ writeLog[Len(writeLog)].tbl = "player_stats"
    /\ Len(bootstrapData.teams.items) = 2
    /\ Len(fixturesData.items) = 2

\* C7: in every storage state the team and element_type of each player row name
\* a stored team and a stored position type, and team_a, team_h and the
\* non-null event of each fixture row name stored teams and a stored gameweek.
C7_ReferencesExist ==
    /\ \A i \in DOMAIN db.players :
         /\ db.players[i].team \in DOMAIN db.teams
         /\ db.players[i].element_type \in DOMAIN db.element_types
    /\ \A i \in DOMAIN db.fixtures :
         /\ db.fixtures[i].team_a \in DOMAIN db.teams
         /\ db.fixtures[i].team_h \in DOMAIN db.teams
         /\ (db.fixtures[i].event # Null => db.fixtures[i].event \in DOMAIN db.events)

C7_Witness ==
    /\ dbInit = "empty"
    /\ minPlayersCount \in DOMAIN db.players
    /\ db.players[minPlayersCount].team = 2
    /\ 2 \in DOMAIN db.fixtures

\* the attempts of the live-stats batch, in the order they were made
StatsAttempts == SelectSeq(writeLog, LAMBDA e : e.tbl = "player_stats")
\* the attempts of the batch that failed
FailedAttempts == SelectSeq(writeLog, LAMBDA e : e.tbl = "player_stats" /\ ~e.ok)
\* updatePlayerStats has left its loop
BatchEnded == reason \in {"updated", "batch_error"}

\* C9: the live-stats batch is best effort. The rows attempted so far are
\* always the first rows of the list, one attempt each in list order; while the
\* loop runs the next row is the one after the last attempted, whatever failed
\* before; the batch failure is thrown only when all N rows have been
\* attempted, and it carries the number of rows that failed.
C9_BestEffortBatch ==
    LET attempts == StatsAttempts
        elements == gameweekData.elements.items
    IN /\ Len(attempts) <= Len(elements)
       /\ \A j \in 1..Len(attempts) : attempts[j].id = elements[j].id
       /\ (pc = "player_stats" => Len(attempts) = idx - 1)
       /\ (BatchEnded => Len(attempts) = Len(elements))
       /\ (batchError # Null =>
             /\ Len(attempts) = Len(elements)
             /\ batchError = Len(FailedAttempts)
             /\ batchError > 0)

C9_Witness ==
    /\ batchError = 1
    /\ Len(StatsAttempts) = 3
    /\ ~StatsAttempts[2].ok
    /\ StatsAttempts[3].ok

\* C10: at the end of a live-stats batch of N rows of which K failed,
\* updateCount + errorCount = N, errorCount = K, exactly N - K player rows
\* have been updated in storage, and the run has failed when K > 0.
C10_BatchCountsMatchStorage ==
    BatchEnded =>
        LET N == Len(gameweekData.elements.items)
            K == Len(FailedAttempts)
        IN /\ updateCount + errorCount = N
           /\ errorCount = K
           /\ rowsAffected = N - K
           /\ (K > 0 => exitCode = 1)

\* the successful writes of the reference tables in the log
ReferenceWritesDone ==
    Cardinality({ j \in 1..Len(writeLog) : writeLog[j].tbl # "player_stats" /\ writeLog[j].ok })

\* C11: once a row of the live-stats batch has failed, the run never exits with
\* code 0: when it ends it ends failed with exit code 1, however many rows of
\* the batch and however many reference records were written.
C11_BatchFailureFailsRun ==
    Len(FailedAttempts) > 0 =>
        /\ exitCode # 0
        /\ (pc = "exit" => exitCode = 1 /\ reason \in {"batch_error", "connection_error"})

C11_Witness ==
    /\ pc = "exit"
    /\ reason = "batch_error"
    /\ Len(FailedAttempts) = 1
    /\ updateCount = 2
    /\ ReferenceWritesDone = TotalRecords - Len(gameweekData.elements.items)

\* C12: the connection is acquired at most once per run and has been released
\* when the run exits, on every exit path of a run that acquired it; a
\* connection whose connect failed was never established and counts as
\* released.
C12_ConnectionReleasedOnExit ==
    /\ conn \in {"none", "connecting", "open", "closed", "failed"}
    /\ (conn = "none" => pc \notin {"connect", "teams", "element_types", "events",
                                    "fixtures", "players", "player_stats"})
    /\ (pc = "exit" => conn \in {"none", "failed", "closed"})

\* the hard rules of validation in the order validateData checks them, each
\* named by the line it logs
HardRules ==
    << "Bootstrap data is null or undefined",
       "Invalid or empty teams data",
       "Invalid or empty players (elements) data",
       "Invalid or empty events data",
       "Invalid or empty element_types data",
       "Invalid gameweek ID",
       "Invalid or empty gameweek elements data",
       "Invalid or empty fixtures data",
       "Invalid player count" >>

\* the fetched data violate the k-th hard rule, each rule taken on its own
RuleViolated(k) ==
    CASE k = 1 -> ~bootstrapData.present
      [] k = 2 -> ~IsArray(bootstrapData.teams) \/ Len(bootstrapData.teams.items) = 0
      [] k = 3 -> ~IsArray(bootstrapData.elements) \/ Len(bootstrapData.elements.items) = 0
      [] k = 4 -> ~IsArray(bootstrapData.events) \/ Len(bootstrapData.events.items) = 0
      [] k = 5 -> ~IsArray(bootstrapData.element_types)
                  \/ Len(bootstrapData.element_types.items) = 0
      [] k = 6 -> gameweekData.gameweekId \in {Null, 0}
      [] k = 7 -> ~IsArray(gameweekData.elements) \/ Len(gameweekData.elements.items) = 0
      [] k = 8 -> ~IsArray(fixturesData) \/ Len(fixturesData.items) = 0
      [] OTHER -> IsArray(bootstrapData.elements)
                  /\ Len(bootstrapData.elements.items) < minPlayersCount

ViolatedRules == { k \in 1..Len(HardRules) : RuleViolated(k) }
FirstViolatedRule == CHOOSE k \in ViolatedRules : \A j \in ViolatedRules : k <= j
ReportedReasons == { validationErrors[j] : j \in 1..Len(validationErrors) }

\* C13 as stated: once validation has run, every hard rule the fetched data
\* violate has its reason among those the validator reported.
C13_EveryViolatedRuleReported ==
    ValidationRan => \A k \in ViolatedRules : HardRules[k] \in ReportedReasons

\* C13 as amended: the validator stops at the first violated hard rule; it
\* reports the reason of that rule and of no other, and reports nothing when no
\* hard rule is violated.
C13_FirstViolatedRuleReported ==
    ValidationRan =>
        validationErrors =
            IF ViolatedRules = {} THEN <<>> ELSE <<HardRules[FirstViolatedRule]>>

C13_Witness ==
    /\ pc = "exit"
    /\ reason = "validation_failed"
    /\ RuleViolated(2)
    /\ RuleViolated(7)
    /\ validationErrors = <<"Invalid or empty teams data">>

\* number of players of the reference snapshot, 0 when the list is absent
PlayerCount ==
    IF IsArray(bootstrapData.elements) THEN Len(bootstrapData.elements.items) ELSE 0

\* C14: once validation has run on a snapshot with fewer than 400 players the
\* run has failed with exit code 1 whatever the other inputs are, and nothing
\* was written; with 400 players or more the player-count rule is not what
\* fails, and the run is past validation when no other hard rule is violated.
C14_PlayerCountThreshold ==
    ValidationRan =>
        /\ PlayerCount < 400 =>
              /\ pc = "exit"
              /\ exitCode = 1
              /\ reason = "validation_failed"
              /\ NothingWritten
        /\ PlayerCount >= 400 =>
              /\ "Invalid player count" \notin ReportedReasons
              /\ (ViolatedRules = {} => reason # "validation_failed")

C14_Witness ==
    /\ pc = "exit"
    /\ PlayerCount = 399
    /\ validationErrors = <<"Invalid player count">>
    /\ Len(fixturesData.items) > 0
    /\ dbInit = "partial"
    /\ NothingWritten

\* the run has gone from validation to the write path
OnWritePath == conn # "none" /\ reason # "validation_failed"

\* C15: the team count and the gameweek count are soft rules. Once validation
\* has run on data that violate no hard rule, the run is on the write path
\* whatever the number of teams and of gameweeks; a team count other than 20
\* and a gameweek count under 38 are reported as warnings only.
C15_SoftRulesDoNotBlock ==
    (ValidationRan /\ ViolatedRules = {}) =>
        /\ OnWritePath
        /\ validationErrors = <<>>
        /\ ("Warning: teams" \in { validationWarnings[j] : j \in 1..Len(validationWarnings) })
               <=> (Len(bootstrapData.teams.items) # 20)
        /\ ("Warning: events" \in { validationWarnings[j] : j \in 1..Len(validationWarnings) })
               <=> (Len(bootstrapData.events.items) < 38)

C15_Witness ==
    /\ pc = "teams"
    /\ conn = "open"
    /\ Len(bootstrapData.teams.items) = 2
    /\ Len(bootstrapData.events.items) = 2
    /\ validationWarnings = <<"Warning: teams", "Warning: events">>

\* the list is absent (or not a list) or has no entry
AbsentOrEmpty(x) == ~IsArray(x) \/ Len(x.items) = 0

\* one of teams, players, gameweeks, position types and fixtures is absent or
\* empty
SomeListAbsentOrEmpty ==
    \/ AbsentOrEmpty(bootstrapData.teams)
    \/ AbsentOrEmpty(bootstrapData.elements)
    \/ AbsentOrEmpty(bootstrapData.events)
    \/ AbsentOrEmpty(bootstrapData.element_types)
    \/ AbsentOrEmpty(fixturesData)

\* validateData returned false / true
ValidationFailed == reason = "validation_failed" /\ pc = "exit" /\ conn = "none"
ValidationPassed == conn # "none" /\ reason # "validation_failed"

\* C16 as stated: validateData fails whenever one of the five lists is absent or
\* empty, the gameweek id is not a number, or the live list is absent or empty,
\* and succeeds whenever none of these holds and there are at least 400 players.
C16_HardRulesExactly ==
    ValidationRan =>
        /\ (\/ SomeListAbsentOrEmpty
            \/ gameweekData.gameweekId = Null
            \/ AbsentOrEmpty(gameweekData.elements)) => ValidationFailed
        /\ (/\ ~SomeListAbsentOrEmpty
            /\ gameweekData.gameweekId # Null
            /\ ~AbsentOrEmpty(gameweekData.elements)
            /\ PlayerCount >= 400) => ValidationPassed

\* C16 as amended: the gameweek id fails validation when it is not a number or
\* is 0; with that, the failure and the success cases are as stated.
C16_HardRulesWithFalsyId ==
    ValidationRan =>
        /\ (\/ SomeListAbsentOrEmpty
            \/ gameweekData.gameweekId = Null
            \/ gameweekData.gameweekId = 0
            \/ AbsentOrEmpty(gameweekData.elements)) => ValidationFailed
        /\ (/\ ~SomeListAbsentOrEmpty
            /\ gameweekData.gameweekId # Null
            /\ gameweekData.gameweekId # 0
            /\ ~AbsentOrEmpty(gameweekData.elements)
            /\ PlayerCount >= 400) => ValidationPassed

C16_Witness ==
    /\ ValidationFailed
    /\ ~SomeListAbsentOrEmpty
    /\ ~AbsentOrEmpty(gameweekData.elements)
    /\ PlayerCount >= 400
    /\ gameweekData.gameweekId = 0

\* the orchestrator state a position of main stands for
OrchestratorState(at, why) ==
    CASE at = "start" -> "Idle"
      [] at \in {"detect_bootstrap", "detect_fixtures", "detected"} -> "DetectingLive"
      [] at \in {"fetch_bootstrap", "gw_bootstrap", "gw_live", "fetch_fixtures"} -> "FetchingData"
      [] at = "validate" -> "Validating"
      [] at \in {"connect", "teams", "element_types", "events", "fixtures", "players",
                 "player_stats"} -> "Persisting"
      [] at = "exit" /\ why = "skipped" -> "NoLiveGames"
      [] at = "exit" /\ why = "updated" -> "Succeeded"
      [] OTHER -> "Failed"

\* the transitions of the orchestrator state machine; NoLiveGames stands for
\* NoLiveGames followed at once by Succeeded
OrchestratorTransitions ==
    { <<"Idle", "DetectingLive">>,
      <<"DetectingLive", "NoLiveGames">>, <<"DetectingLive", "FetchingData">>,
      <<"DetectingLive", "Failed">>,
      <<"FetchingData", "Validating">>, <<"FetchingData", "Failed">>,
      <<"Validating", "Persisting">>, <<"Validating", "Failed">>,
      <<"Persisting", "Succeeded">>, <<"Persisting", "Failed">> }

\* C17: every step of a run that changes the orchestrator state is a transition
\* of the state machine, whose order admits no return to an earlier state;
\* Persisting is entered only from Validating with data that pass validation,
\* FetchingData only from DetectingLive with a live fixture found, and
\* NoLiveGames only with none found; the exit code is 0 in NoLiveGames and
\* Succeeded and 1 in Failed.
C17_OrchestratorStateMachine ==
    [][ LET from == OrchestratorState(pc, reason)
            to == OrchestratorState(pc', reason')
        IN from # to =>
             /\ <<from, to>> \in OrchestratorTransitions
             /\ (to = "Persisting" =>
                    validateData(bootstrapData, gameweekData, fixturesData))
             /\ (to = "FetchingData" => isGameLive = "true")
             /\ (to = "NoLiveGames" => isGameLive = "false")
             /\ (to \in {"NoLiveGames", "Succeeded"} => exitCode' = 0)
             /\ (to = "Failed" => exitCode' = 1) ]_vars

C17_Witness ==
    /\ OrchestratorState(pc, reason) = "Succeeded"
    /\ exitCode = 0
    /\ isGameLive = "true"
    /\ validationErrors = <<>>
    /\ conn = "closed"

\* the keys of the write attempts of table t, in the order they were made
AttemptedKeys(t) ==
    LET attempts == SelectSeq(writeLog, LAMBDA e : e.tbl = t)
    IN [j \in 1..Len(attempts) |-> attempts[j].id]

\* the keys of the records of the fetched list of table t, in list order
RecordKeys(t) == [j \in 1..Len(PhaseItems(t)) |-> PhaseItems(t)[j].id]

\* the run found a live fixture, passed validation and met no storage error
CleanRunEnded ==
    /\ pc = "exit"
    /\ isGameLive = "true"
    /\ ValidationPassed
    /\ reason \notin {"connect_error", "connection_error"}
    /\ \A j \in 1..Len(writeLog) : writeLog[j].ok

\* C18: a run that found a live fixture, passed validation and met no storage
\* error has, when it ends, issued exactly one merge for every record of the
\* fetched teams, position types, gameweeks, fixtures and players, then exactly
\* one update for every row of the live list, none before the last merge, and
\* it exits with code 0.
C18_CleanRunWritesEverythingOnce ==
    CleanRunEnded =>
        /\ \A t \in {"teams", "element_types", "events", "fixtures", "players",
                     "player_stats"} : AttemptedKeys(t) = RecordKeys(t)
        /\ \A j \in 1..Len(writeLog) :
             writeLog[j].tbl = "player_stats" =>
                 j > Len(writeLog) - Len(gameweekData.elements.items)
        /\ exitCode = 0
        /\ reason = "updated"

C18_Witness ==
    /\ CleanRunEnded
    /\ dbInit = "empty"
    /\ Len(gameweekData.elements.items) = 2
    /\ Len(bootstrapData.teams.items) = 2
    /\ Len(AttemptedKeys("players")) = minPlayersCount

\* the positions in the log of the reference merges that failed
FailedMerges == { j \in 1..Len(writeLog) : writeLog[j].tbl # "player_stats" /\ ~writeLog[j].ok }

\* C19: a reference merge that fails ends the run at once. In every state in
\* which a merge has failed, the failed merge is the last statement issued (no
\* later record of that table, of a later table or of the live list has been
\* attempted), no live update was made, the connection is closed and the run
\* has exited with code 1.
C19_MergeFailureAbortsRun ==
    FailedMerges # {} =>
        /\ FailedMerges = {Len(writeLog)}
        /\ updateCount = 0 /\ errorCount = 0
        /\ pc = "exit"
        /\ exitCode = 1
        /\ reason = "write_error"
        /\ conn = "closed"

C19_Witness ==
    /\ reason = "write_error"
    /\ Len(writeLog) > minPlayersCount
    /\ writeLog[Len(writeLog)] = [tbl |-> "players", id |-> minPlayersCount, ok |-> FALSE]
    /\ 2 \notin DOMAIN db.teams
    /\ Len(gameweekData.elements.items) > 0

\* C20: the live-stats phase adds no row and touches no row but the one its
\* statement names. Every step taken while updatePlayerStats runs leaves the
\* set of player identifiers in storage as it was, leaves every player row
\* other than the one with the identifier of the live row unchanged, and
\* leaves the other tables unchanged.
C20_LiveStatsNeverInserts ==
    [][ (pc = "player_stats" /\ idx <= Len(gameweekData.elements.items)) =>
          /\ DOMAIN db'.players = DOMAIN db.players
          /\ \A i \in DOMAIN db.players :
               i # gameweekData.elements.items[idx].id => db'.players[i] = db.players[i]
          /\ db'.teams = db.teams
          /\ db'.element_types = db.element_types
          /\ db'.events = db.events
          /\ db'.fixtures = db.fixtures ]_vars

C20_Witness ==
    /\ pc = "player_stats"
    /\ idx = 2
    /\ writeLog[Len(writeLog)] = [tbl |-> "player_stats", id |-> minPlayersCount + 2, ok |-> TRUE]
    /\ updateCount = 1
    /\ (minPlayersCount + 2) \notin DOMAIN db.players

\* ------------------------------------------------------------------------
\* The reference snapshot applied twice (two runs of the write sequence of
\* updateDatabase on the same data)
\* ------------------------------------------------------------------------
MergeTeamsChoices ==
    { <<Team(1, "Arsenal", 0)>>,
      <<Team(1, "Arsenal", 3), Team(2, "Chelsea", Null)>>,
      <<Team(1, "Arsenal", 3), Team(1, "Woolwich", 0)>> }
MergeEventsChoices ==
    { <<Event(1, "true")>>, <<Event(1, "false"), Event(2, "true")>> }
MergeFixturesChoices ==
    { <<Fixture(1, 2, 1, 1, 0, "true", "false")>>,
      <<Fixture(1, Null, 1, 1, Null, "null", "null"), Fixture(2, 1, 2, 1, 3, "true", "true")>> }
MergePlayerRecs ==
    { [Player(i, tm, 1) EXCEPT !.total_points = tp] :
        i \in {1, 3}, tm \in {1, 2}, tp \in {Null, 4} }
MergePlayersChoices == SeqsUpTo(MergePlayerRecs, MaxMergePlayers) \ {<<>>}

MergeInit ==
    /\ idx = 1
    /\ exitCode = Null
    /\ reason = ""
    /\ validationErrors = <<>>
    /\ validationWarnings = <<>>
    /\ isGameLive = "true"
    /\ currentGameweek = Null
    /\ detectEvents = Missing
    /\ detectFixtures = Missing
    /\ \E tm \in MergeTeamsChoices, ev \in MergeEventsChoices, pl \in MergePlayersChoices :
         bootstrapData =
            BootstrapData(Arr(tm), Arr(pl), Arr(ev), Arr(<<ElementType(1, "Goalkeeper", 2)>>))
    /\ gameweekData = NoGameweekData
    /\ \E fx \in MergeFixturesChoices : fixturesData = Arr(fx)
    /\ pc = PhaseFrom(1)
    /\ inFlight = IssuedOn(pc, 1)
    /\ httpLog = <<>>
    /\ output = <<>>
    /\ promise = "none"
    /\ settleCalls = 0
    /\ schema = AllTables
    /\ conn = "open"
    /\ dbInit \in InitialDbNames
    /\ db = InitialDb(dbInit)
    /\ pass = 1
    /\ dbOnce = EmptyDb
    /\ observe = FALSE
    /\ detectedGameweek = Null
    /\ currentsSeen = 0
    /\ now = 1
    /\ writeLog = <<>>
    /\ updateCount = 0
    /\ errorCount = 0
    /\ rowsAffected = 0
    /\ batchError = Null

\* the reference tables have all been written: the same snapshot is applied
\* a second time
Merge_Again ==
    /\ pass = 1
    /\ pc = "player_stats"
    /\ pass' = 2
    /\ dbOnce' = db
    /\ pc' = PhaseFrom(1)
    /\ idx' = 1
    /\ UNCHANGED <<exitVars, detectVars, fetchVars, storeVars, dbInit, observe, promise,
                   settleCalls, schema, batchVars>>
    /\ inFlight' = (inFlight \ {Request(pc, idx)}) \cup IssuedOn(pc', idx')

MergeNext ==
    \/ UpdateTeams
    \/ UpdateElementTypes
    \/ UpdateEvents
    \/ UpdateFixtures
    \/ UpdatePlayers
    \/ Merge_Again

SpecMerge == MergeInit /\ [][MergeNext]_vars

\* a row without its last_updated timestamp
Untimed(row) == [row EXCEPT !.last_updated = 0]
\* two tables hold the same rows, timestamps aside
SameRows(a, b) ==
    /\ DOMAIN a = DOMAIN b
    /\ \A i \in DOMAIN a : Untimed(a[i]) = Untimed(b[i])
SameStorage(a, b) ==
    /\ SameRows(a.teams, b.teams)
    /\ SameRows(a.element_types, b.element_types)
    /\ SameRows(a.events, b.events)
    /\ SameRows(a.fixtures, b.fixtures)
    /\ SameRows(a.players, b.players)

\* both applications of the snapshot have run to their end
AppliedTwice == pass = 2 /\ pc = "player_stats"

\* C8: merge-upsert is idempotent. When a reference snapshot has been applied
\* twice, storage holds the rows the first application left, last_updated
\* aside.
C8_MergeUpsertIdempotent == AppliedTwice => SameStorage(db, dbOnce)

C8_Witness ==
    /\ AppliedTwice
    /\ dbInit = "partial"
    /\ db # dbOnce
    /\ DOMAIN db.players = {1, 2, 3, minPlayersCount + 1}
    /\ db.players[1].total_points = 4

\* ------------------------------------------------------------------------
\* Properties of the live-stats statement and of the fetches
\* ------------------------------------------------------------------------
\* the live row whose update is awaited
AwaitedLiveRow == gameweekData.elements.items[idx]

\* the step is a live update that succeeded on a stored player row
LiveUpdateApplied ==
    /\ pc = "player_stats"
    /\ idx <= Len(gameweekData.elements.items)
    /\ updateCount' = updateCount + 1
    /\ AwaitedLiveRow.id \in DOMAIN db.players

\* the values the snapshot carries for a live row: absent totals count as 0;
\* decimals are compared as numbers ("0.0" is the number "0"), and a text that
\* is no decimal counts as "0"
CarriedPoints(e) == IF e.stats.total_points = Null THEN 0 ELSE e.stats.total_points
CarriedMinutes(e) == IF e.stats.minutes = Null THEN 0 ELSE e.stats.minutes
CarriedInfluence(e) ==
    CASE e.stats.influence = "1.5" -> "1.5"
      [] e.stats.influence = "0.0" -> "0"
      [] OTHER -> "0"

\* C21: live totals are overwritten, not accumulated. After a successful live
\* update of a stored player the live columns of the row hold the values the
\* snapshot carries, whatever they held before, and applying the same live
\* row once more to the result changes nothing but last_updated.
C21_LiveTotalsOverwritten ==
    [][ LiveUpdateApplied =>
          LET e == AwaitedLiveRow
              row == db'.players[e.id]
          IN /\ row.event_points = CarriedPoints(e)
             /\ row.minutes = CarriedMinutes(e)
             /\ row.influence = CarriedInfluence(e)
             /\ SameRows(UpdateLiveStats(db'.players, e, now'), db'.players) ]_vars

C21_Witness ==
    /\ pc = "player_stats"
    /\ idx = 4
    /\ updateCount = 2
    /\ dbInit = "partial"
    /\ db.players[1].minutes = 45
    /\ db.players[1].event_points = 0

\* ------------------------------------------------------------------------
\* A run whose view of the source is recorded
\* ------------------------------------------------------------------------
\* the run Init starts on storage left by an earlier run, with the history
\* variables switched on
ObservedInit ==
    /\ pc = "start"
    /\ idx = 0
    /\ exitCode = Null
    /\ isGameLive = "pending"
    /\ currentGameweek = Null
    /\ detectEvents = Missing
    /\ detectFixtures = Missing
    /\ bootstrapData = NoData
    /\ gameweekData = NoGameweekData
    /\ fixturesData = Missing
    /\ conn = "none"
    /\ dbInit = "partial"
    /\ db = InitialDb(dbInit)
    /\ pass = 0
    /\ dbOnce = EmptyDb
    /\ observe = TRUE
    /\ detectedGameweek = Null
    /\ currentsSeen = 0
    /\ now = 1
    /\ writeLog = <<>>
    /\ updateCount = 0
    /\ errorCount = 0
    /\ rowsAffected = 0
    /\ reason = ""
    /\ validationErrors = <<>>
    /\ validationWarnings = <<>>
    /\ inFlight = {}
    /\ httpLog = <<>>
    /\ output = <<>>
    /\ promise = "none"
    /\ settleCalls = 0
    /\ schema = AllTables
    /\ batchError = Null

SpecObserved == ObservedInit /\ [][Next]_vars

\* a live-stat update has been attempted
LiveStatsAttempted == updateCount + errorCount > 0

\* C22: live stats are written only in runs whose source data mark exactly one
\* gameweek as current: when a live-stat update has been attempted, no
\* bootstrap answer the run looked at for the current gameweek held more than
\* one (or no) gameweek with is_current.
C22_LiveStatsOnlyWithOneCurrent ==
    LiveStatsAttempted => currentsSeen = 1

\* the requests in flight of one kind
InFlightOf(kind) == { r \in inFlight : r.kind = kind }

\* C23: no database operation overlaps another. In every state at most one
\* request is in flight, so a database request is issued only when the one
\* before it has completed and never while a network fetch is outstanding; the
\* step that issues a database request is the step that completes the
\* previous request.
C23_NoOverlappingRequests ==
    /\ Cardinality(inFlight) <= 1
    /\ (InFlightOf("sql") # {} => InFlightOf("http") = {})
    /\ (InFlightOf("http") # {} => conn = "none")
    /\ \A r \in InFlightOf("sql") :
         r.what # "connect" =>
             /\ conn = "open"
             /\ r.i = Len(SelectSeq(writeLog, LAMBDA e : e.tbl = r.what)) + 1

C23_Witness ==
    /\ pc = "player_stats"
    /\ inFlight = {[kind |-> "sql", what |-> "player_stats", i |-> 3]}
    /\ Len(writeLog) = TotalRecords - 1
    /\ updateCount = 1
    /\ errorCount = 1

\* the endpoints of the requests function fn has made, in order
RequestsBy(fn) ==
    LET mine == SelectSeq(httpLog, LAMBDA e : e.by = fn)
    IN [j \in 1..Len(mine) |-> mine[j].what]

\* a request that failed is the last request of the run, and the run has
\* failed with it
NoRetry ==
    \A j \in 1..Len(httpLog) :
        ~httpLog[j].ok => (j = Len(httpLog) /\ pc = "exit" /\ exitCode = 1)

\* s is an initial part of t
IsPrefix(s, t) == Len(s) <= Len(t) /\ \A j \in 1..Len(s) : s[j] = t[j]

\* C24 as stated: each of the three Source Client calls makes exactly one
\* network request, and a failed request is never made again.
C24_OneRequestPerCall ==
    /\ \A fn \in {"getBootstrapData", "getFixturesData", "getCurrentGameweekData"} :
         Len(RequestsBy(fn)) <= 1
    /\ NoRetry

\* C24 as amended: getBootstrapData and getFixturesData make one request each;
\* getCurrentGameweekData makes two, bootstrap-static and then the live
\* endpoint of the gameweek it found current; a failed request is never made
\* again and no later request follows it.
C24_RequestsPerCall ==
    /\ Len(RequestsBy("getBootstrapData")) <= 1
    /\ Len(RequestsBy("getFixturesData")) <= 1
    /\ IsPrefix(RequestsBy("getCurrentGameweekData"), <<"bootstrap-static", "live">>)
    /\ (pc = "gw_bootstrap" => Len(RequestsBy("getBootstrapData")) = 1)
    /\ (pc = "fetch_fixtures" => Len(RequestsBy("getCurrentGameweekData")) = 2)
    /\ (pc = "validate" => Len(RequestsBy("getFixturesData")) = 1)
    /\ NoRetry

C24_Witness ==
    /\ pc = "exit"
    /\ reason = "fetch_error"
    /\ Len(httpLog) = 6
    /\ httpLog[6] = [by |-> "getFixturesData", what |-> "fixtures", ok |-> FALSE]
    /\ RequestsBy("getCurrentGameweekData") = <<"bootstrap-static", "live">>

\* validateData is about to be called or has been called
ValidatorReached == pc = "validate" \/ ValidationRan

\* the reference snapshot lacks one of its four lists
BootstrapFieldMissing ==
    \/ Falsy(bootstrapData.teams)
    \/ Falsy(bootstrapData.elements)
    \/ Falsy(bootstrapData.events)
    \/ Falsy(bootstrapData.element_types)

\* C25 as stated: an answer with success status that lacks teams, players,
\* gameweeks or position types, or the live player list, or is no fixtures
\* array, makes the fetch itself fail: the validator is never reached with
\* such data.
C25_MissingFieldFailsFetch ==
    ValidatorReached =>
        /\ ~BootstrapFieldMissing
        /\ ~Falsy(gameweekData.elements)
        /\ IsArray(fixturesData)

\* C25 as amended: a live answer without its player list and a fixtures answer
\* that is no array make the fetch fail before the validator is reached; a
\* bootstrap answer that lacks one of its four lists is returned by the fetch
\* and rejected by the validator, before any write.
C25_MissingFieldFailsFetchOrValidation ==
    /\ ValidatorReached =>
         /\ bootstrapData.present
         /\ ~Falsy(gameweekData.elements)
         /\ IsArray(fixturesData)
    /\ (ValidationRan /\ BootstrapFieldMissing) => (ValidationFailed /\ NothingWritten)

C25_Witness ==
    /\ ValidationFailed
    /\ Falsy(bootstrapData.element_types)
    /\ ~Falsy(bootstrapData.events)
    /\ validationErrors = <<"Invalid or empty element_types data">>
    /\ \A j \in 1..Len(httpLog) : httpLog[j].ok

\* the step is a write that succeeded
WriteSucceeded ==
    /\ Len(writeLog') = Len(writeLog) + 1
    /\ writeLog'[Len(writeLog')].ok

\* the record whose write is awaited
AwaitedRecord == PhaseItems(pc)[idx]

\* the text is a decimal number
IsDecimal(s) == s \in {"1.5", "0.0"}

\* what a successful write does with the decimal fields of its record: text
\* that is no decimal is stored as null or zero
DecimalsDefaulted ==
    /\ (pc = "players" /\ ~IsDecimal(AwaitedRecord.form)) =>
           db'.players[AwaitedRecord.id].form \in {"null", "0"}
    /\ (pc = "player_stats" /\ AwaitedRecord.id \in DOMAIN db.players
          /\ ~IsDecimal(AwaitedRecord.stats.influence)) =>
           db'.players[AwaitedRecord.id].influence \in {"null", "0"}

\* what a successful write does with the numeric fields the player statements
\* default: an absent value is stored as 0
PlayerNumbersDefaulted ==
    /\ (pc = "players" /\ AwaitedRecord.total_points = Null) =>
           db'.players[AwaitedRecord.id].total_points = 0
    /\ (pc = "player_stats" /\ AwaitedRecord.id \in DOMAIN db.players) =>
           /\ (AwaitedRecord.stats.total_points = Null =>
                  db'.players[AwaitedRecord.id].event_points = 0)
           /\ (AwaitedRecord.stats.minutes = Null =>
                  db'.players[AwaitedRecord.id].minutes = 0)

\* the value stored for the absent numeric fields of teams, position types and
\* fixtures is v
ReferenceNumbersStoredAs(v) ==
    /\ (pc = "teams" /\ AwaitedRecord.strength = Null) =>
           db'.teams[AwaitedRecord.id].strength = v
    /\ (pc = "element_types" /\ AwaitedRecord.squad_select = Null) =>
           db'.element_types[AwaitedRecord.id].squad_select = v
    /\ (pc = "fixtures" /\ AwaitedRecord.team_a_score = Null) =>
           db'.fixtures[AwaitedRecord.id].team_a_score = v

LastLine == output[Len(output)]
HasWritten(text) == \E j \in 1..Len(output) : output[j].text = text

\* C27: a run that exits non-zero has written an error line last; a skipped
\* run has written the skip message last and never the update-completed
\* message; a run that exits 0 after an update has written the
\* update-completed message last and never the skip message.
C27_ExitIsTold ==
    pc = "exit" =>
        /\ Len(output) > 0
        /\ (exitCode # 0 => LastLine.stream = "error")
        /\ (isGameLive = "false" =>
               /\ LastLine = [stream |-> "log", text |-> "No live games. Skipping update."]
               /\ ~HasWritten("Database update completed successfully"))
        /\ ((exitCode = 0 /\ isGameLive # "false") =>
               /\ LastLine = [stream |-> "log", text |-> "Database update completed successfully"]
               /\ ~HasWritten("No live games. Skipping update."))

C27_Witness ==
    /\ pc = "exit"
    /\ exitCode = 1
    /\ reason = "batch_error"
    /\ output = << [stream |-> "log", text |-> "Live game detected! Updating database..."],
                   [stream |-> "error", text |-> "Error in update script"] >>

\* the gameweek rows as the run has written them mark gameweek g as current
WrittenAsCurrent(g) ==
    /\ \E j \in 1..Len(bootstrapData.events.items) : bootstrapData.events.items[j].id = g
    /\ g \in DOMAIN db.events
    /\ db.events[g].is_current = TRUE

\* C28: the three bootstrap-static answers of a run are fetched separately and
\* may differ; all the same, once a live-stat update has been attempted, the
\* gameweek whose live stats are written is the gameweek live detection found,
\* and the gameweek rows written by the run mark it as current.
C28_LiveGameweekIsDetectedAndCurrent ==
    LiveStatsAttempted =>
        /\ gameweekData.gameweekId = detectedGameweek
        /\ WrittenAsCurrent(gameweekData.gameweekId)

\* the run has exited 0 after its live update
ExitedZeroAfterLiveUpdate == pc = "exit" /\ exitCode = 0 /\ reason = "updated"

\* the stored row of a live row's player holds the values the snapshot carries
StoredAsCarried(e) ==
    /\ e.id \in DOMAIN db.players
    /\ db.players[e.id].event_points = CarriedPoints(e)
    /\ db.players[e.id].minutes = CarriedMinutes(e)
    /\ db.players[e.id].influence = CarriedInfluence(e)

\* C29: when a run exits 0 after a live update, every player identifier of the
\* live snapshot has a stored player row whose live-stat columns equal the
\* snapshot's values; a live row without a stored player is not a success.
C29_ExitZeroMeansAllLiveRowsStored ==
    ExitedZeroAfterLiveUpdate =>
        \A j \in 1..Len(gameweekData.elements.items) :
            StoredAsCarried(gameweekData.elements.items[j])

\* the step is a fixture merge that succeeded for a fixture whose source
\* carries an away score
FixtureScoreMerged ==
    /\ pc = "fixtures"
    /\ WriteSucceeded
    /\ AwaitedRecord.team_a_score # Null

\* C30: the fixture merge-upsert persists the source's scores: after a
\* successful merge of a fixture whose source score is present, the value 0
\* included, the stored score equals the source score.
C30_FixtureScoresPersisted ==
    [][FixtureScoreMerged =>
          db'.fixtures[AwaitedRecord.id].team_a_score = AwaitedRecord.team_a_score]_vars

\* the reference fields of a stored player row
ReferenceFields(row) ==
    [web_name |-> row.web_name, team |-> row.team, element_type |-> row.element_type,
     code |-> row.code, now_cost |-> row.now_cost, total_points |-> row.total_points,
     form |-> row.form, status |-> row.status]

\* the row the merge stores for a player that has no row yet
InsertedPlayerRow(player) == MergePlayer(EmptyTable, player, 0)[player.id]

\* the step is a player merge that succeeded
PlayerMerged == pc = "players" /\ WriteSucceeded

\* C31: the result of a player merge-upsert does not depend on whether the row
\* existed before: the reference fields stored after a successful merge are
\* those an insert of the same record stores.
C31_PlayerMergeSameOnInsertAndUpdate ==
    [][PlayerMerged =>
          ReferenceFields(db'.players[AwaitedRecord.id]) =
              ReferenceFields(InsertedPlayerRow(AwaitedRecord))]_vars

\* the player row a step of the live-stats phase may touch: the one matched by
\* the identifier of the awaited live row
MatchedByLiveRow(i) ==
    /\ idx <= Len(gameweekData.elements.items)
    /\ i = AwaitedLiveRow.id

\* C32: the live-stats phase changes only the live-stat columns and
\* last_updated of the matched player row: every step of the phase leaves the
\* other tables, the set of player rows, every unmatched player row and the
\* reference fields of the matched row as they are.
C32_LiveStatsFrame ==
    [][pc = "player_stats" =>
          /\ db'.teams = db.teams
          /\ db'.element_types = db.element_types
          /\ db'.events = db.events
          /\ db'.fixtures = db.fixtures
          /\ DOMAIN db'.players = DOMAIN db.players
          /\ \A i \in DOMAIN db.players :
                /\ ReferenceFields(db'.players[i]) = ReferenceFields(db.players[i])
                /\ (db'.players[i] # db.players[i] => MatchedByLiveRow(i))]_vars

C32_Witness ==
    /\ pc = "player_stats"
    /\ rowsAffected = 1
    /\ db.players[1].minutes = 45
    /\ db.players[1].last_updated = now - 1
    /\ db.players[1].web_name = "new"

TableNames == {"teams", "element_types", "events", "fixtures", "players"}

\* the identifiers of a fetched list
IdsOf(list) == { list[j].id : j \in 1..Len(list) }

\* the identifiers the fetched snapshots carry for a table: the reference
\* snapshot's, and for the players also the live snapshot's
SnapshotIds(t) ==
    CASE t = "teams" -> IdsOf(bootstrapData.teams.items)
      [] t = "element_types" -> IdsOf(bootstrapData.element_types.items)
      [] t = "events" -> IdsOf(bootstrapData.events.items)
      [] t = "fixtures" -> IdsOf(fixturesData.items)
      [] OTHER -> IdsOf(bootstrapData.elements.items) \cup IdsOf(gameweekData.elements.items)

\* C33: a run never deletes a row and never modifies a row whose identifier is
\* absent from the fetched snapshots: every row the tables held before the run
\* is still there, and is as it was when its identifier is in neither the
\* reference snapshot nor the live snapshot.
C33_AbsentRowsUntouched ==
    \A t \in TableNames :
        \A i \in DOMAIN InitialDb(dbInit)[t] :
            /\ i \in DOMAIN db[t]
            /\ (i \notin SnapshotIds(t) => db[t][i] = InitialDb(dbInit)[t][i])

C33_Witness ==
    /\ pc = "exit"
    /\ exitCode = 0
    /\ reason = "updated"
    /\ dbInit = "partial"
    /\ db.teams[1] # PartialDb.teams[1]
    /\ db.teams[2] = PartialDb.teams[2]
    /\ db.players[1] # OldPlayerRow
    /\ db.players[minPlayersCount + 1] = OldPlayerRow

\* the process has reported its outcome
OutcomeReported == exitCode # Null

\* C34: the outcome of updateDatabase is decided exactly once. A connection
\* 'error' event during the write sequence ends the run Failed with exit code
\* 1; once the outcome is reported it never changes, and no storage write is
\* issued afterwards.
C34_OutcomeDecidedOnce ==
    /\ [](reason = "connection_error" => (pc = "exit" /\ exitCode = 1))
    /\ [][OutcomeReported =>
             /\ exitCode' = exitCode
             /\ reason' = reason
             /\ db' = db
             /\ writeLog' = writeLog]_vars

C34_Witness ==
    /\ pc = "exit"
    /\ exitCode = 1
    /\ reason = "connection_error"
    /\ conn = "open"
    /\ Len(writeLog) = 2
    /\ writeLog[2].ok

\* the process has exited as Succeeded (code 0) or Failed (code 1)
Exited == pc = "exit" /\ exitCode \in {0, 1}

\* C35: every run terminates. When every request eventually completes or
\* fails, each run eventually exits with code 0 or 1, whatever the sizes of the
\* snapshots and whichever rows fail.
C35_EveryRunTerminates == <>Exited

C35_Witness ==
    /\ Exited
    /\ exitCode = 1
    /\ Len(gameweekData.elements.items) = 3
    /\ errorCount = 2
    /\ updateCount = 1

\* ------------------------------------------------------------------------
\* The callback variant of updatePlayerStats (the older script): all requests
\* are issued in one forEach, the request callbacks count and settle
\* ------------------------------------------------------------------------
MaxCallbackRows == 3

\* live lists of n rows, row i for player i, with or without a stats object
CallbackLists ==
    UNION { { [i \in 1..n |-> LiveElement(i, has[i], 1, 10, "1.5")] : has \in [1..n -> BOOLEAN] } :
            n \in 0..MaxCallbackRows }

CallbackInit ==
    /\ pc = "cb_start"
    /\ idx = 1
    /\ exitCode = Null
    /\ reason = ""
    /\ validationErrors = <<>>
    /\ validationWarnings = <<>>
    /\ isGameLive = "true"
    /\ currentGameweek = Null
    /\ detectEvents = Missing
    /\ detectFixtures = Missing
    /\ bootstrapData = NoData
    /\ \E list \in CallbackLists : gameweekData = [gameweekId |-> 1, elements |-> Arr(list)]
    /\ fixturesData = Missing
    /\ inFlight = {}
    /\ httpLog = <<>>
    /\ output = <<>>
    /\ promise = "none"
    /\ settleCalls = 0
    /\ schema = AllTables
    /\ conn = "open"
    /\ dbInit = "partial"
    /\ db = InitialDb(dbInit)
    /\ pass = 0
    /\ dbOnce = EmptyDb
    /\ observe = FALSE
    /\ detectedGameweek = Null
    /\ currentsSeen = 0
    /\ now = 1
    /\ writeLog = <<>>
    /\ updateCount = 0
    /\ errorCount = 0
    /\ rowsAffected = 0
    /\ batchError = Null

\* what the callback variant leaves alone
callbackFrame ==
    <<exitVars, detectVars, fetchVars, conn, db, now, dbInit, pass, dbOnce, observe,
      schema, rowsAffected, batchError>>

\* a promise that takes the outcome of the last resolve() or reject()
Settle_LastWins(outcome) ==
    /\ promise' = outcome
    /\ settleCalls' = settleCalls + 1

\* resolve() or reject(): the first call settles the promise, a later one has
\* no effect
Settle(outcome) ==
    /\ promise' = IF promise = "pending" THEN outcome ELSE promise
    /\ settleCalls' = settleCalls + 1

\* new Promise(...): the counters, and the early resolve of an empty list
Callback_Start ==
    /\ pc = "cb_start"
    /\ updateCount' = 0
    /\ errorCount' = 0
    /\ idx' = 1
    /\ IF Len(gameweekData.elements.items) = 0
       THEN promise' = "resolved" /\ settleCalls' = 1 /\ pc' = "cb_returned"
       ELSE promise' = "pending" /\ settleCalls' = 0 /\ pc' = "cb_foreach"
    /\ UNCHANGED <<callbackFrame, writeLog, inFlight>>

\* one turn of elements.forEach: build the request and hand it to
\* connection.execSql. Reading a field of an absent stats object throws out of
\* the forEach and out of the promise executor, which rejects the promise.
Callback_Issue ==
    /\ pc = "cb_foreach"
    /\ LET element == gameweekData.elements.items[idx]
       IN IF ~element.hasStats
          THEN /\ Settle("rejected")
               /\ pc' = "cb_returned"
               /\ UNCHANGED <<idx, inFlight>>
          ELSE /\ inFlight' = inFlight \cup {[kind |-> "sql", what |-> "PlayerStats", i |-> idx]}
               /\ idx' = idx + 1
               /\ pc' = IF idx = Len(gameweekData.elements.items) THEN "cb_returned" ELSE pc
               /\ UNCHANGED <<promise, settleCalls>>
    /\ UNCHANGED <<callbackFrame, writeLog, updateCount, errorCount>>

\* the callback of one issued request, in a later turn of the event loop: count
\* the outcome, and settle when the counts add up to the length of the list
Callback_Fire ==
    /\ pc = "cb_returned"
    /\ \E r \in inFlight, ok \in BOOLEAN :
         LET updated == IF ok THEN updateCount + 1 ELSE updateCount
             errors == IF ok THEN errorCount ELSE errorCount + 1
         IN /\ inFlight' = inFlight \ {r}
            /\ updateCount' = updated
            /\ errorCount' = errors
            /\ writeLog' = Append(writeLog, [tbl |-> "PlayerStats",
                                             id |-> gameweekData.elements.items[r.i].id, ok |-> ok])
            /\ IF updated + errors = Len(gameweekData.elements.items)
               THEN Settle(IF errors > 0 THEN "rejected" ELSE "resolved")
               ELSE UNCHANGED <<promise, settleCalls>>
    /\ UNCHANGED <<callbackFrame, pc, idx>>

CallbackNext ==
    \/ Callback_Start
    \/ Callback_Issue
    \/ Callback_Fire

SpecCallback == CallbackInit /\ [][CallbackNext]_vars

\* the promise of the callback variant has settled
Settled == promise \in {"resolved", "rejected"}

\* C36: in the callback variant of updatePlayerStats the promise settles
\* exactly once and only when all N request callbacks have fired; it is
\* rejected exactly when a callback reported an error; for N = 0 it resolves at
\* once without a request being issued.
C36_CallbackPromiseSettlesOnce ==
    LET N == Len(gameweekData.elements.items)
    IN /\ settleCalls <= 1
       /\ (Settled =>
             /\ settleCalls = 1
             /\ updateCount + errorCount = N
             /\ (promise = "rejected" <=> errorCount > 0))
       /\ ((N = 0 /\ pc # "cb_start") =>
             /\ promise = "resolved"
             /\ inFlight = {}
             /\ writeLog = <<>>)

\* ------------------------------------------------------------------------
\* The database readiness check (initDatabase.js)
\* ------------------------------------------------------------------------
MaxErrorEvents == 1

ReadyMessage == "Database ready: players table found"
ErrorMessage == "ERROR: players table not found. Please run the schema.sql file first."

\* the row of the check query: IF EXISTS (... OBJECT_ID(N'[dbo].[players]') ...)
CheckTableMessage == IF "players" \in schema THEN ReadyMessage ELSE ErrorMessage

\* the number of lines with a given text written so far
Written(text) == Cardinality({ j \in 1..Len(output) : output[j].text = text })

\* the script is loaded: the promise is created and connection.connect() is
\* called; any part of the schema may have been set up before
InitDatabaseInit ==
    /\ pc = "init_connecting"
    /\ idx = 0
    /\ exitCode = Null
    /\ reason = ""
    /\ validationErrors = <<>>
    /\ validationWarnings = <<>>
    /\ isGameLive = "pending"
    /\ currentGameweek = Null
    /\ detectEvents = Missing
    /\ detectFixtures = Missing
    /\ bootstrapData = NoData
    /\ gameweekData = NoGameweekData
    /\ fixturesData = Missing
    /\ inFlight = {[kind |-> "sql", what |-> "connect", i |-> 0]}
    /\ httpLog = <<>>
    /\ output = <<>>
    /\ promise = "pending"
    /\ settleCalls = 0
    /\ schema \in SUBSET AllTables
    /\ conn = "connecting"
    /\ dbInit = "empty"
    /\ db = EmptyDb
    /\ pass = 0
    /\ dbOnce = EmptyDb
    /\ observe = FALSE
    /\ detectedGameweek = Null
    /\ currentsSeen = 0
    /\ now = 1
    /\ writeLog = <<>>
    /\ updateCount = 0
    /\ errorCount = 0
    /\ rowsAffected = 0
    /\ batchError = Null

\* what the readiness check leaves alone
initFrame ==
    <<validationErrors, validationWarnings, detectVars, fetchVars, db, now, writeLog, dbInit,
      pass, dbOnce, observe, schema, batchVars>>

\* connection.on('connect'): a failed connect rejects; otherwise the check
\* query is handed to connection.execSql
InitDatabase_Connect ==
    /\ pc = "init_connecting"
    /\ \E ok \in BOOLEAN :
         IF ok
         THEN /\ Say("log", "Connected to SQL database")
              /\ conn' = "open"
              /\ pc' = "init_query"
              /\ inFlight' = {[kind |-> "sql", what |-> "check", i |-> 0]}
              /\ UNCHANGED <<promise, settleCalls>>
         ELSE /\ Say("error", "Database connection error")
              /\ Settle("rejected")
              /\ conn' = "failed"
              /\ pc' = "init_idle"
              /\ inFlight' = {}
    /\ UNCHANGED <<idx, exitCode, reason, initFrame>>

\* request.on('row'): the message is logged; an 'ERROR' message rejects
InitDatabase_Row ==
    /\ pc = "init_query"
    /\ idx = 0
    /\ idx' = 1
    /\ Say("log", CheckTableMessage)
    /\ IF CheckTableMessage = ErrorMessage
       THEN Settle("rejected")
       ELSE UNCHANGED <<promise, settleCalls>>
    /\ UNCHANGED <<pc, exitCode, reason, conn, inFlight, initFrame>>

\* the callback of the check query: a query that succeeded has delivered its
\* row; one that failed may or may not have
InitDatabase_Complete ==
    /\ pc = "init_query"
    /\ \E ok \in BOOLEAN :
         /\ ok => idx = 1
         /\ IF ok
            THEN Settle("resolved") /\ UNCHANGED output
            ELSE Settle("rejected") /\ Say("error", "Query error")
    /\ conn' = "closed"
    /\ pc' = "init_idle"
    /\ idx' = 2
    /\ inFlight' = {}
    /\ UNCHANGED <<exitCode, reason, initFrame>>

\* connection.on('error'), while the connect or the query is awaited
InitDatabase_ConnectionError ==
    /\ pc \in {"init_connecting", "init_query"}
    /\ Written("Connection error") < MaxErrorEvents
    /\ Say("error", "Connection error")
    /\ Settle("rejected")
    /\ UNCHANGED <<pc, idx, exitCode, reason, conn, inFlight, initFrame>>

\* the .then / .catch of the caller, a job that runs once the promise has
\* settled; handlers already dispatched by the connection may run before it
InitDatabase_Exit ==
    /\ pc \in {"init_connecting", "init_query", "init_idle"}
    /\ promise \in {"resolved", "rejected"}
    /\ IF promise = "resolved"
       THEN /\ Say("log", "Database initialization check completed")
            /\ exitCode' = 0
            /\ reason' = "ready"
       ELSE /\ Say("error", "Database initialization failed")
            /\ exitCode' = 1
            /\ reason' = "init_failed"
    /\ pc' = "exit"
    /\ UNCHANGED <<idx, conn, inFlight, promise, settleCalls, initFrame>>

InitDatabaseNext ==
    \/ InitDatabase_Connect
    \/ InitDatabase_Row
    \/ InitDatabase_Complete
    \/ InitDatabase_ConnectionError
    \/ InitDatabase_Exit

SpecInitDatabase == InitDatabaseInit /\ [][InitDatabaseNext]_vars

\* the check query has completed
CheckQueryCompleted == idx = 2

\* C37: the readiness check exits with code 1 whenever the players table is
\* absent, the connection fails or the check query fails, and with code 0 only
\* when the players table exists; once an 'ERROR' row has been reported the
\* promise stays rejected, whatever the completion of the query says; and the
\* connection is closed once the query has completed.
C37_ReadinessCheckExit ==
    /\ (pc = "exit" =>
          /\ exitCode \in {0, 1}
          /\ ("players" \notin schema => exitCode = 1)
          /\ (conn = "failed" => exitCode = 1)
          /\ (Written("Query error") > 0 => exitCode = 1)
          /\ (Written("Connection error") > 0 => exitCode = 1)
          /\ (exitCode = 0 => "players" \in schema))
    /\ (Written(ErrorMessage) > 0 => promise = "rejected")
    /\ (CheckQueryCompleted => conn = "closed")

C37_Witness ==
    /\ pc = "exit"
    /\ exitCode = 1
    /\ "players" \notin schema
    /\ Written(ErrorMessage) = 1
    /\ Written("Query error") = 0
    /\ Written("Connection error") = 0
    /\ CheckQueryCompleted
    /\ settleCalls = 2
    /\ conn = "closed"

====
